---- MODULE Spec2Model ----
(***************************************************************************)
(* Model of the conversation-process orchestration of codex-wui            *)
(* (src-tauri/src/codex.rs): the running_codex registry, the               *)
(* pending_approvals map, the commands stream_codex, cancel_prompt and     *)
(* respond_to_approval, and the three threads every launch starts (stdout  *)
(* reader, stderr reader, exit monitor).                                   *)
(*                                                                         *)
(* Every Mutex critical section of the source is one atomic action; the    *)
(* code between two critical sections is a program-counter value of the    *)
(* calling thread.  Commands are modelled as callable from concurrent      *)
(* threads (AppState is shared behind Mutexes for that purpose).           *)
(***************************************************************************)
EXTENDS Integers, Sequences, FiniteSets, TLC

\* ---------------------------------------------------------------- bounds
MaxLaunch == 2      \* stream_codex calls (one process instance each at most)
MaxCancel == 2      \* cancel_prompt calls
MaxRespond == 2     \* respond_to_approval calls
MaxLines == 2       \* lines the agent processes write to stdout, all together
MaxErrLines == 1    \* lines the agent processes write to stderr, all together
MaxOps == 4         \* commands called and lines written in one run, all together

Cids == {"A", "B"}              \* conversation ids
Rids == {"r1", "r2"}            \* approval request ids
Pids == 1..MaxLaunch            \* process instances: launch k spawns instance k
Cancels == 1..MaxCancel
Responds == 1..MaxRespond

NoProc == 0                     \* HashMap::get -> None in running_codex
NoCid == "none"                 \* HashMap::get -> None in pending_approvals

\* Option<i32> as a sequence of length 0 or 1
None == <<>>

\* a command that has not returned yet has no return value
NotReturned == [returned |-> FALSE]
Some(x) == <<x>>
unwrap_or(opt, d) == IF opt = None THEN d ELSE opt[1]

\* ExitStatus::code() of a child that ended: Some(0), Some(1), or None when a
\* signal ended it
ExitStatuses == {Some(0), Some(1), None}

\* lines of the agent's stdout: an approval-shaped JSON event carrying a
\* request id, a JSON event that yields a codex-stream-delta, a non-JSON line
StdoutLines == [kind : {"approval"}, rid : Rids]
               \cup {[kind |-> "delta", rid |-> "-"], [kind |-> "raw", rid |-> "-"]}

\* ---------------------------------------------------------------- texts

MaxTextLen == 3     \* longest item text
MaxEvents == 3      \* item events given to one StreamParseCache

\* a text is a sequence of characters
Chars == {"a", "b"}
Texts == UNION {[1..n -> Chars] : n \in 0..MaxTextLen}

UpperCase == <<"A", "B", "C", "D", "E", "F", "G", "H", "I", "J", "K", "L", "M",
               "N", "O", "P", "Q", "R", "S", "T", "U", "V", "W", "X", "Y", "Z">>
LowerCase == <<"a", "b", "c", "d", "e", "f", "g", "h", "i", "j", "k", "l", "m",
               "n", "o", "p", "q", "r", "s", "t", "u", "v", "w", "x", "y", "z">>

UpperSet == {UpperCase[u] : u \in DOMAIN UpperCase}
LowerOf == [c \in UpperSet |-> LowerCase[CHOOSE u \in DOMAIN UpperCase : UpperCase[u] = c]]

\* str::to_ascii_lowercase: A-Z to a-z, every other character as it is
to_ascii_lowercase(s) ==
    [n \in DOMAIN s |-> IF s[n] \in UpperSet THEN LowerOf[s[n]] ELSE s[n]]

\* str::starts_with
starts_with(s, prefix) ==
    Len(prefix) <= Len(s) /\ SubSeq(s, 1, Len(prefix)) = prefix

\* str::contains
contains(s, needle) ==
    \E n \in 0..(Len(s) - Len(needle)) : SubSeq(s, n + 1, n + Len(needle)) = needle

\* the item types parse_codex_event tells apart for text items, and two the
\* agent may send: one in another case, one no branch handles
S_reasoning == <<"r", "e", "a", "s", "o", "n", "i", "n", "g">>
S_agent_message == <<"a", "g", "e", "n", "t", "_", "m", "e", "s", "s", "a", "g", "e">>
S_message == <<"m", "e", "s", "s", "a", "g", "e">>
S_Agent_Message == <<"A", "g", "e", "n", "t", "_", "M", "e", "s", "s", "a", "g", "e">>
S_web_search == <<"w", "e", "b", "_", "s", "e", "a", "r", "c", "h">>

ItemIds == {"", "i1"}             \* "": the event has no item id
ItemEvents ==
    [type : {"item.started", "item.updated", "item.completed"},
     item_type : {S_reasoning, S_Agent_Message, S_message, S_web_search},
     id : ItemIds,
     text : Texts]

\* a field of a decoded JSON object: absent, a value that is no string (a
\* number, null, an object), or a string
Absent == [kind |-> "absent", s |-> <<>>]
NonString == [kind |-> "number", s |-> <<>>]
Str(s) == [kind |-> "string", s |-> s]

S_approval == <<"a", "p", "p", "r", "o", "v", "a", "l">>
S_APPROVAL == <<"A", "P", "P", "R", "O", "V", "A", "L">>
S_execApprovalRequest == <<"e", "x", "e", "c", "A", "p", "p", "r", "o", "v", "a", "l",
                           "R", "e", "q", "u", "e", "s", "t">>
S_item_updated == <<"i", "t", "e", "m", ".", "u", "p", "d", "a", "t", "e", "d">>
S_approve == <<"a", "p", "p", "r", "o", "v", "e">>
S_r1 == <<"r", "1">>
S_r2 == <<"r", "2">>
S_title == <<"T">>
S_Approval_requested == <<"A", "p", "p", "r", "o", "v", "a", "l", " ", "r", "e", "q", "u",
                          "e", "s", "t", "e", "d">>

RequestIdValues == {Absent, NonString, Str(<<>>), Str(S_r1), Str(S_r2)}

\* the events try_extract_approval_request is given: the fields it reads
\* (description and params, which only feed the description text, left out)
ApprovalEvents ==
    [type : {Absent, NonString, Str(S_execApprovalRequest), Str(S_item_updated)},
     method : {Absent, NonString, Str(S_APPROVAL), Str(S_approve)},
     requestId : RequestIdValues,
     request_id : RequestIdValues,
     id : RequestIdValues,
     title : {Absent, NonString, Str(S_title)}]

NoEvent == "-"

\* ---------------------------------------------------------------- threads and locks

\* a thread: the command call or the monitor it runs
Thread(by, who) == [by |-> by, who |-> who]

\* a Mutex no thread holds
Free == Thread("none", 0)

\* ---------------------------------------------------------------- stdout lines

MaxReaderLines == 3 \* lines one agent process writes to its stdout

PipeCapacity == 1   \* writes the stdin pipe of an agent process holds unread

\* one line as the agent writes it: its text, its terminator, what serde_json
\* makes of the text ("no": it does not decode; otherwise the events the
\* decoded value yields: none, one stream delta, the two thinking events, an
\* approval request), and whether its bytes are valid UTF-8
ReaderLines ==
    [text : {<<>>, <<" ">>, <<"x">>, <<" ", "x">>}, eol : {<<"\n">>, <<"\r", "\n">>},
     json : {"no"}, utf8 : {TRUE}]
    \cup [text : {<<"{", "}">>}, eol : {<<"\n">>},
          json : {"none", "delta", "thinking", "approval"}, utf8 : {TRUE}]
    \cup [text : {<<"x">>}, eol : {<<"\n">>}, json : {"no"}, utf8 : {FALSE}]

\* the request id of the approval-shaped line
ReaderRid == "r1"
NotCalled == [called |-> FALSE, ret |-> None]

NoCall == [called |-> FALSE, item_id |-> "", full_text |-> <<>>, is_terminal |-> FALSE,
           previous |-> None, delta |-> <<>>, emitted |-> <<>>]
NoHist == [n |-> 0, last |-> <<>>, concat |-> <<>>, chain |-> TRUE, ended |-> FALSE,
           term |-> FALSE]

\* ---------------------------------------------------------------- decoded events

S_item_streaming == <<"i", "t", "e", "m", ".", "s", "t", "r", "e", "a", "m", "i", "n", "g">>
S_item_started == <<"i", "t", "e", "m", ".", "s", "t", "a", "r", "t", "e", "d">>
S_item_completed == <<"i", "t", "e", "m", ".", "c", "o", "m", "p", "l", "e", "t", "e", "d">>
S_turn_failed == <<"t", "u", "r", "n", ".", "f", "a", "i", "l", "e", "d">>
S_error == <<"e", "r", "r", "o", "r">>
S_command_execution == <<"c", "o", "m", "m", "a", "n", "d", "_", "e", "x", "e", "c", "u",
                         "t", "i", "o", "n">>
S_mcp_tool_call == <<"m", "c", "p", "_", "t", "o", "o", "l", "_", "c", "a", "l", "l">>
S_file_change == <<"f", "i", "l", "e", "_", "c", "h", "a", "n", "g", "e">>
S_completed == <<"c", "o", "m", "p", "l", "e", "t", "e", "d">>
S_failed == <<"f", "a", "i", "l", "e", "d">>
S_declined == <<"d", "e", "c", "l", "i", "n", "e", "d">>
S_Declined == <<"D", "e", "c", "l", "i", "n", "e", "d">>
S_in_progress == <<"i", "n", "_", "p", "r", "o", "g", "r", "e", "s", "s">>
S_done == <<"d", "o", "n", "e">>
S_running == <<"r", "u", "n", "n", "i", "n", "g">>
S_Turn_failed == <<"T", "u", "r", "n", " ", "f", "a", "i", "l", "e", "d">>
S_Unknown_error == <<"U", "n", "k", "n", "o", "w", "n", " ", "e", "r", "r", "o", "r">>

\* the item of an event: the fields parse_codex_event reads of it (command,
\* aggregated_output, exit_code, server, tool, result and changes, which only
\* feed titles and outputs, are absent)
Item(item_type, text, delta, status) ==
    [type |-> item_type, id |-> "i1", text |-> text, delta |-> delta, status |-> status]

NoItem == Item(<<>>, <<>>, <<>>, Absent)

\* what the agent sends of one item: stream deltas, full texts, tool states
StreamingItems == {Item(t, <<>>, d, Absent) :
                      t \in {S_reasoning, S_message}, d \in {<<>>, <<"a">>, <<"b">>}}
TextItems == {Item(t, x, <<>>, Absent) :
                 t \in {S_reasoning, S_message},
                 x \in {<<>>, <<"a">>, <<"a", "b">>, <<"b">>}}
ToolItems == {Item(t, <<>>, <<>>, st) :
                 t \in {S_command_execution, S_mcp_tool_call, S_file_change},
                 st \in {Absent, NonString, Str(S_completed), Str(S_failed),
                         Str(S_declined), Str(S_Declined), Str(S_in_progress)}}

\* the events parse_codex_event is given, without the approval fields
EventBodies ==
    [type : {S_item_streaming}, has_item : {TRUE}, item : StreamingItems]
    \cup [type : {S_item_updated, S_item_completed}, has_item : {TRUE},
          item : TextItems \cup ToolItems]
    \cup [type : {S_item_started, S_turn_failed, S_error, S_execApprovalRequest},
          has_item : {FALSE}, item : {NoItem}]

\* the same events with the fields try_extract_approval_request reads: any of
\* them may carry a method and a request id
ParseEvents ==
    {[type |-> Str(b.type), method |-> m, requestId |-> r, request_id |-> Absent,
      id |-> Absent, title |-> Absent, has_item |-> b.has_item, item |-> b.item] :
        b \in EventBodies, m \in {Absent, Str(S_APPROVAL)}, r \in {Absent, Str(S_r1)}}

\* what one emitted event carries besides the conversation id
Emitted(name, data) == [name |-> name, data |-> data]

\* per item id: the stream deltas emitted for the item, its text as the agent
\* has delivered it so far, and what kind of history that was
NoParseHist == [concat |-> <<>>, full |-> <<>>, grows |-> TRUE, message |-> TRUE,
                ended |-> FALSE, term |-> FALSE, streamed |-> FALSE, n |-> 0]

\* ---------------------------------------------------------------- shell sessions
MaxPty == 2         \* pty_create calls
MaxPtyWrite == 1    \* pty_write calls
MaxPtyKill == 2     \* pty_kill calls
MaxChunks == 2      \* chunks the shells write to their pipes, all together
MaxPtyOps == 4      \* pty commands called and chunks written in one run, all together

PtyCalls == 1..MaxPty
PtyWrites == 1..MaxPtyWrite
PtyKills == 1..MaxPtyKill

NoChild == 0                    \* HashMap::get -> None in pty_terminals

\* SystemTime::now() in milliseconds, as generate_id may read it: two calls can
\* fall into the same millisecond
Millis == {1, 11}

\* the data argument of pty_write, and the chunks a shell writes
PtyData == {"a", "b"}

\* an id no pty_create has returned
UnknownId == <<"pty", "_", "0", "_", "0">>

VARIABLES
    running_codex,      \* AppState.running_codex: cid -> instance (NoProc if absent)
    pending_approvals,  \* AppState.pending_approvals: request id -> cid (NoCid if absent)
    pstate,             \* per instance: "unborn", "alive", "exited", "killed"
    pstatus,            \* per instance: ExitStatus::code() as try_wait reported it
    hasStdin,           \* per instance: RunningCodexProcess.stdin is Some
    outbuf,             \* per instance: number of lines in its stdout pipe, not yet read
    errbuf,             \* per instance: number of lines in its stderr pipe, not yet read
    nout,               \* lines written to stdout so far, by all instances
    nerr,               \* lines written to stderr so far, by all instances
    stdin_lines,        \* per instance: decision lines written to its stdin (call: the
                        \* respond_to_approval call that wrote the line, not in the line)
    events,             \* per instance: the events emitted about it, in order
    lpc, lcid,          \* stream_codex call k: position, conversation_id
    outpc, outreq,      \* stdout reader of launch k: position, approval to insert
    errpc,              \* stderr reader of launch k: position
    monpc, mon_exit_code, mon_inst, \* monitor of launch k: position, exit_code, instance reaped
    cpc, ccid, had_process, cinst,  \* cancel_prompt call j: position, id, flag, instance removed
    rpc, rrid, rapproved, rpending, rresult, rinst,  \* respond_to_approval call i
    \* history, read by the properties only:
    fate,               \* per request id: "orphaned" once its owner's process was removed
                        \* by cancel_prompt or the monitor while it was pending, "purged"
                        \* once that thread's purge removed it, "-" when (re)registered
    rfate,              \* respond_to_approval call i: fate of its request id at the call
    cresult,            \* cancel_prompt call j: the value it returned
    cafter,             \* cancel_prompt call j: the instance of the only launch of its
                        \* conversation, if that launch had returned Ok at the call
    \* DeltaSpec:
    item_text_by_id,    \* StreamParseCache.item_text_by_id: item id -> Option<text>
    dcall,              \* the last parse_codex_event: the arguments of its
                        \* extract_text_delta, the cache entry that found, the delta
                        \* returned, the events emitted
    dhist,              \* history per item id of the extract_text_delta calls so far
    dn,                 \* events parsed so far
    pevent,             \* the event of the last parse_codex_event call
    pemitted,           \* the events that call emitted, in order
    pret,               \* what that call returned
    phist,              \* history per item id over the parse_codex_event calls so far
    \* ApprovalSpec:
    aevent,             \* the decoded event given to try_extract_approval_request
    aresult,            \* whether it was called, and what it returned: None or
                        \* Some(ApprovalRequestEvent)
    \* ReaderSpec:
    sout_lines,         \* history: the lines the agent wrote to its stdout, in order
    sout_pipe,          \* the stdout pipe: the lines written and not yet read, each
                        \* with its number in sout_lines
    sout_pc,            \* the stdout reader thread: "reading" or "ended"
    sout_read,          \* lines the reader has taken from the pipe
    sout_events,        \* the events the reader emitted, in order, each with the
                        \* number of the line it derives from
    \* LockSpec:
    reg_lock,           \* the running_codex Mutex: Free or the thread holding it
    stdin_lock,         \* per instance: the Mutex around its ChildStdin, Free or
                        \* the thread holding it
    stdin_bytes,        \* per instance: what reached its stdin, one entry per
                        \* write_all that succeeded (call: the writing call)
    io_log,             \* history: the operations done on child processes, each
                        \* with whether its thread held the running_codex lock
    existing,           \* stream_codex call k: the instance it removed, to be killed
    \* PtySpec:
    COUNTER,            \* generate_id's static AtomicU64
    pty_terminals,      \* AppState.pty_terminals: the entries [id, child]
    pty_pc, pty_id,     \* pty_create call s: position, the id it generated
    pty_ret,            \* pty_create call s: the value it returned
    pty_state,          \* the shell of call s: "unborn", "alive", "exited", "killed"
    pty_stdin,          \* the shell of call s: what reached its stdin, one entry per
                        \* write_all (call: the pty_write call that wrote it)
    pty_outbuf,         \* the shell of call s: chunks in its stdout pipe, not yet read
    pty_errbuf,         \* the shell of call s: chunks in its stderr pipe, not yet read
    pty_nchunks,        \* chunks written so far, by all shells to both pipes
    pty_monpc, pty_monref, pty_exit_code,  \* monitor of call s: position, the child
                        \* it looked up, the exit code it took
    pty_events,         \* per session: the events its threads emitted, in order (by:
                        \* the thread that emitted the event, not in the payload)
    pw_pc, pw_id, pw_data, pw_ref, pw_result,   \* pty_write call w
    pk_pc, pk_id, pk_ref, pk_result             \* pty_kill call q

codexVars == <<running_codex, pending_approvals, pstate, pstatus, hasStdin, outbuf, errbuf,
          nout, nerr, stdin_lines, events, lpc, lcid, outpc, outreq, errpc,
          monpc, mon_exit_code, mon_inst, cpc, ccid, had_process, cinst,
          rpc, rrid, rapproved, rpending, rresult, rinst, fate, rfate, cafter, cresult>>

\* DeltaSpec: one StreamParseCache and the item events parse_codex_event is given
deltaVars == <<item_text_by_id, dcall, dhist, dn, pevent, pemitted, pret, phist>>

\* ApprovalSpec: one event and what try_extract_approval_request makes of it
approvalVars == <<aevent, aresult>>

\* ReaderSpec: the stdout pipe of one agent process and its reader thread
readerVars == <<sout_lines, sout_pipe, sout_pc, sout_read, sout_events>>

\* LockSpec: the Mutexes, lock by lock, and the operations on the children
lockVars == <<reg_lock, stdin_lock, stdin_bytes, io_log, existing>>

\* the variables of the specifications other than Spec, which the actions of
\* Spec leave alone
\* PtySpec: the shell sessions of shell.rs
ptyVars == <<COUNTER, pty_terminals, pty_pc, pty_id, pty_ret, pty_state, pty_stdin,
             pty_outbuf, pty_errbuf, pty_nchunks, pty_monpc, pty_monref, pty_exit_code,
             pty_events, pw_pc, pw_id, pw_data, pw_ref, pw_result,
             pk_pc, pk_id, pk_ref, pk_result>>

isolatedVars == <<deltaVars, approvalVars, readerVars, lockVars, ptyVars>>

vars == <<codexVars, isolatedVars>>

procVars == <<pstate, pstatus, hasStdin>>
pipeVars == <<outbuf, errbuf, nout, nerr>>
launchVars == <<lpc, lcid>>
outVars == <<outpc, outreq>>
monVars == <<monpc, mon_exit_code, mon_inst>>
cancelVars == <<cpc, ccid, had_process, cinst, cafter, cresult>>
respondVars == <<rpc, rrid, rapproved, rpending, rresult, rinst, rfate>>

\* ---------------------------------------------------------------- helpers

\* window.emit(name, payload).  The emitted events are recorded per process
\* instance, in the order of emission: src is the instance the event is about,
\* by the kind of thread that emitted it and who that thread's launch or call
\* (none of the three is part of the payload)
Emit(name, cid, src, by, who, data) ==
    events' = [events EXCEPT ![src] =
                  Append(@, [name |-> name, cid |-> cid, by |-> by, who |-> who, data |-> data])]

\* retain with the predicate inverted (== for !=)
retain_inverted(map, conversation_id) ==
    [r \in Rids |-> IF map[r] # conversation_id THEN NoCid ELSE map[r]]

\* pending_approvals.retain(|_, pending| pending.conversation_id != conversation_id)
retain(map, conversation_id) ==
    [r \in Rids |-> IF map[r] = conversation_id THEN NoCid ELSE map[r]]

\* Child::kill(): SIGKILL to a live child; no effect on one that already exited
kill(p) ==
    pstate' = [pstate EXCEPT ![p] = IF @ = "alive" THEN "killed" ELSE @]

\* Child::try_wait(): Ok(Some(status)) once the child is no longer alive
try_wait(p) == IF pstate[p] = "alive" THEN "running" ELSE "exited"

\* the commands called and the lines written so far
OpsStarted ==
    Cardinality({k \in Pids : lpc[k] # "idle"})
    + Cardinality({j \in Cancels : cpc[j] # "idle"})
    + Cardinality({i \in Responds : rpc[i] # "idle"})
    + nout + nerr

\* ---------------------------------------------------------------- initial state

CodexInit ==
    /\ running_codex = [c \in Cids |-> NoProc]
    /\ pending_approvals = [r \in Rids |-> NoCid]
    /\ pstate = [p \in Pids |-> "unborn"]
    /\ pstatus = [p \in Pids |-> None]
    /\ hasStdin = [p \in Pids |-> FALSE]
    /\ outbuf = [p \in Pids |-> 0]
    /\ errbuf = [p \in Pids |-> 0]
    /\ nout = 0
    /\ nerr = 0
    /\ stdin_lines = [p \in Pids |-> <<>>]
    /\ events = [p \in Pids |-> <<>>]
    /\ lpc = [k \in Pids |-> "idle"]
    /\ lcid = [k \in Pids |-> NoCid]
    /\ outpc = [k \in Pids |-> "off"]
    /\ outreq = [k \in Pids |-> "-"]
    /\ errpc = [k \in Pids |-> "off"]
    /\ monpc = [k \in Pids |-> "off"]
    /\ mon_exit_code = [k \in Pids |-> 0]
    /\ mon_inst = [k \in Pids |-> NoProc]
    /\ cpc = [j \in Cancels |-> "idle"]
    /\ ccid = [j \in Cancels |-> NoCid]
    /\ had_process = [j \in Cancels |-> FALSE]
    /\ cinst = [j \in Cancels |-> NoProc]
    /\ rpc = [i \in Responds |-> "idle"]
    /\ rrid = [i \in Responds |-> "-"]
    /\ rapproved = [i \in Responds |-> FALSE]
    /\ rpending = [i \in Responds |-> NoCid]
    /\ rresult = [i \in Responds |-> "-"]
    /\ rinst = [i \in Responds |-> NoProc]
    /\ fate = [r \in Rids |-> "-"]
    /\ rfate = [i \in Responds |-> "-"]
    /\ cafter = [j \in Cancels |-> NoProc]
    /\ cresult = [j \in Cancels |-> NotReturned]

\* StreamParseCache::new(), utils.rs 216-221
DeltaInit ==
    /\ item_text_by_id = [id \in ItemIds |-> None]
    /\ dcall = NoCall
    /\ dhist = [id \in ItemIds |-> NoHist]
    /\ dn = 0
    /\ pevent = NoEvent
    /\ pemitted = <<>>
    /\ pret = NotCalled
    /\ phist = [id \in ItemIds |-> NoParseHist]

\* no event is being examined
ApprovalIdle ==
    /\ aevent = NoEvent
    /\ aresult = NotCalled

\* no stdout reader of ReaderSpec runs
ReaderIdle ==
    /\ sout_lines = <<>>
    /\ sout_pipe = <<>>
    /\ sout_pc = "off"
    /\ sout_read = 0
    /\ sout_events = <<>>

\* Mutex::new: no lock is held, nothing was written or done to a child
LockIdle ==
    /\ reg_lock = Free
    /\ stdin_lock = [p \in Pids |-> Free]
    /\ stdin_bytes = [p \in Pids |-> <<>>]
    /\ io_log = {}
    /\ existing = [k \in Pids |-> NoProc]

\* AppState::default() and the static COUNTER of generate_id: no session yet
PtyIdle ==
    /\ COUNTER = 1
    /\ pty_terminals = {}
    /\ pty_pc = [s \in PtyCalls |-> "idle"]
    /\ pty_id = [s \in PtyCalls |-> None]
    /\ pty_ret = [s \in PtyCalls |-> NotReturned]
    /\ pty_state = [s \in PtyCalls |-> "unborn"]
    /\ pty_stdin = [s \in PtyCalls |-> <<>>]
    /\ pty_outbuf = [s \in PtyCalls |-> 0]
    /\ pty_errbuf = [s \in PtyCalls |-> 0]
    /\ pty_nchunks = 0
    /\ pty_monpc = [s \in PtyCalls |-> "off"]
    /\ pty_monref = [s \in PtyCalls |-> NoChild]
    /\ pty_exit_code = [s \in PtyCalls |-> None]
    /\ pty_events = [s \in PtyCalls |-> <<>>]
    /\ pw_pc = [w \in PtyWrites |-> "idle"]
    /\ pw_id = [w \in PtyWrites |-> None]
    /\ pw_data = [w \in PtyWrites |-> "-"]
    /\ pw_ref = [w \in PtyWrites |-> NoChild]
    /\ pw_result = [w \in PtyWrites |-> "-"]
    /\ pk_pc = [q \in PtyKills |-> "idle"]
    /\ pk_id = [q \in PtyKills |-> None]
    /\ pk_ref = [q \in PtyKills |-> NoChild]
    /\ pk_result = [q \in PtyKills |-> "-"]

Init ==
    /\ CodexInit
    /\ DeltaInit
    /\ ApprovalIdle
    /\ ReaderIdle
    /\ LockIdle
    /\ PtyIdle

\* ---------------------------------------------------------------- stream_codex

\* codex.rs 297-302: lock running_codex; remove and kill the existing process
StreamCodexKill(k, c) ==
    /\ lpc[k] = "idle"
    /\ IF k = 1 THEN TRUE ELSE lpc[k - 1] # "idle"
    /\ OpsStarted < MaxOps
    /\ lcid' = [lcid EXCEPT ![k] = c]
    /\ lpc' = [lpc EXCEPT ![k] = "purge"]
    /\ IF running_codex[c] # NoProc
          THEN /\ kill(running_codex[c])
               /\ running_codex' = [running_codex EXCEPT ![c] = NoProc]
          ELSE UNCHANGED <<running_codex, pstate>>
    /\ UNCHANGED <<isolatedVars, pending_approvals, pstatus, hasStdin, pipeVars, stdin_lines, events,
                   outVars, errpc, monVars, cancelVars, respondVars, fate>>

\* stream_codex that tries the spawn first and purges the approvals only when
\* the spawn succeeded
StreamCodexSpawn_SpawnFirst(k, ok) ==
    /\ lpc[k] = "purge"
    /\ IF ok
          THEN /\ pending_approvals' = retain(pending_approvals, lcid[k])
               /\ pstate' = [pstate EXCEPT ![k] = "alive"]
               /\ hasStdin' = [hasStdin EXCEPT ![k] = TRUE]
               /\ lpc' = [lpc EXCEPT ![k] = "insert"]
          ELSE /\ lpc' = [lpc EXCEPT ![k] = "failed"]
               /\ UNCHANGED <<pending_approvals, pstate, hasStdin>>
    /\ UNCHANGED <<isolatedVars, running_codex, pstatus, pipeVars, stdin_lines, events, lcid, outVars,
                   errpc, monVars, cancelVars, respondVars, fate>>

\* codex.rs 303-324: lock pending_approvals; purge this conversation's
\* approvals; then cmd.spawn() with the three pipes (an Err returns from the
\* command).  Nothing the other threads can see lies between the two.
StreamCodexSpawn(k, ok) ==
    /\ lpc[k] = "purge"
    /\ pending_approvals' = retain(pending_approvals, lcid[k])
    /\ IF ok
          THEN /\ pstate' = [pstate EXCEPT ![k] = "alive"]
               /\ hasStdin' = [hasStdin EXCEPT ![k] = TRUE]
               /\ lpc' = [lpc EXCEPT ![k] = "insert"]
          ELSE /\ lpc' = [lpc EXCEPT ![k] = "failed"]
               /\ UNCHANGED <<pstate, hasStdin>>
    /\ UNCHANGED <<isolatedVars, running_codex, pstatus, pipeVars, stdin_lines, events, lcid, outVars,
                   errpc, monVars, cancelVars, respondVars, fate>>

\* stream_codex that starts the threads and returns Ok without the insert
StreamCodexInsert_NoInsert(k) ==
    /\ lpc[k] = "insert"
    /\ outpc' = [outpc EXCEPT ![k] = "reading"]
    /\ errpc' = [errpc EXCEPT ![k] = "reading"]
    /\ monpc' = [monpc EXCEPT ![k] = "poll"]
    /\ lpc' = [lpc EXCEPT ![k] = "done"]
    /\ UNCHANGED <<isolatedVars, running_codex, pending_approvals, procVars, pipeVars, stdin_lines,
                   events, lcid, outreq, mon_exit_code, mon_inst, cancelVars, respondVars,
                   fate>>

\* codex.rs 326-433: lock running_codex; insert (HashMap::insert replaces and
\* drops an entry already there; dropping a Child does not kill it); start the
\* stdout reader, the stderr reader and the monitor; return Ok(())
StreamCodexInsert(k) ==
    /\ lpc[k] = "insert"
    /\ running_codex' = [running_codex EXCEPT ![lcid[k]] = k]
    /\ outpc' = [outpc EXCEPT ![k] = "reading"]
    /\ errpc' = [errpc EXCEPT ![k] = "reading"]
    /\ monpc' = [monpc EXCEPT ![k] = "poll"]
    /\ lpc' = [lpc EXCEPT ![k] = "done"]
    /\ UNCHANGED <<isolatedVars, pending_approvals, procVars, pipeVars, stdin_lines, events, lcid,
                   outreq, mon_exit_code, mon_inst, cancelVars, respondVars, fate>>

\* ---------------------------------------------------------------- the agent process

\* the child writes one line to its stdout pipe (what the line says is drawn
\* when it is read: nothing looks at it before)
ProcWrite(p) ==
    /\ pstate[p] = "alive"
    /\ nout < MaxLines
    /\ OpsStarted < MaxOps
    /\ outbuf' = [outbuf EXCEPT ![p] = @ + 1]
    /\ nout' = nout + 1
    /\ UNCHANGED <<isolatedVars, running_codex, pending_approvals, procVars, errbuf, nerr, stdin_lines,
                   events, launchVars, outVars, errpc, monVars, cancelVars, respondVars,
                   fate>>

\* the child writes one line to its stderr pipe
ProcWriteErr(p) ==
    /\ pstate[p] = "alive"
    /\ nerr < MaxErrLines
    /\ OpsStarted < MaxOps
    /\ errbuf' = [errbuf EXCEPT ![p] = @ + 1]
    /\ nerr' = nerr + 1
    /\ UNCHANGED <<isolatedVars, running_codex, pending_approvals, procVars, outbuf, nout, stdin_lines,
                   events, launchVars, outVars, errpc, monVars, cancelVars, respondVars,
                   fate>>

\* the child ends by itself (its exit status is drawn when try_wait first
\* reports it: nothing reads it before)
ProcExit(p) ==
    /\ pstate[p] = "alive"
    /\ pstate' = [pstate EXCEPT ![p] = "exited"]
    /\ UNCHANGED <<isolatedVars, running_codex, pending_approvals, pstatus, hasStdin, pipeVars,
                   stdin_lines, events, launchVars, outVars, errpc, monVars, cancelVars,
                   respondVars, fate>>

\* ---------------------------------------------------------------- stdout reader thread

\* parse_codex_event on one decoded line (utils.rs 321-340 and the taxonomy
\* below it), or the raw-token branch of the reader (codex.rs 361-366): the
\* event the line yields
StdoutEventName(line) ==
    CASE line.kind = "approval" -> "codex-approval-request"
      [] line.kind = "delta" -> "codex-stream-delta"
      [] OTHER -> "codex-stream-token"

\* codex.rs 345-352, 361-366: read the next line of the pipe and emit its event;
\* an approval request is still to be inserted into pending_approvals.  The
\* loop ends at end-of-stream: the thread is finished once the child is gone
\* and the pipe is drained (no step of the model).
OutRead(k, line) ==
    /\ outpc[k] = "reading"
    /\ outbuf[k] > 0
    /\ Emit(StdoutEventName(line), lcid[k], k, "stdout", k, line.rid)
    /\ IF line.kind = "approval"
          THEN /\ outpc' = [outpc EXCEPT ![k] = "register"]
               /\ outreq' = [outreq EXCEPT ![k] = line.rid]
          ELSE UNCHANGED <<outpc, outreq>>
    /\ outbuf' = [outbuf EXCEPT ![k] = @ - 1]
    /\ UNCHANGED <<isolatedVars, running_codex, pending_approvals, procVars, errbuf, nout, nerr,
                   stdin_lines, launchVars, errpc, monVars, cancelVars, respondVars, fate>>

\* the stdout reader that keeps the owner of a request id already pending
OutRegister_FirstWins(k) ==
    /\ outpc[k] = "register"
    /\ pending_approvals' = [pending_approvals EXCEPT ![outreq[k]] =
                                IF @ = NoCid THEN lcid[k] ELSE @]
    /\ outpc' = [outpc EXCEPT ![k] = "reading"]
    /\ outreq' = [outreq EXCEPT ![k] = "-"]
    /\ fate' = [fate EXCEPT ![outreq[k]] = "-"]
    /\ UNCHANGED <<isolatedVars, running_codex, procVars, pipeVars, stdin_lines, events, launchVars,
                   errpc, monVars, cancelVars, respondVars>>

\* codex.rs 353-359: lock pending_approvals; insert request id -> cid_out
OutRegister(k) ==
    /\ outpc[k] = "register"
    /\ pending_approvals' = [pending_approvals EXCEPT ![outreq[k]] = lcid[k]]
    /\ outpc' = [outpc EXCEPT ![k] = "reading"]
    /\ outreq' = [outreq EXCEPT ![k] = "-"]
    /\ fate' = [fate EXCEPT ![outreq[k]] = "-"]
    /\ UNCHANGED <<isolatedVars, running_codex, procVars, pipeVars, stdin_lines, events, launchVars,
                   errpc, monVars, cancelVars, respondVars>>

\* ---------------------------------------------------------------- stderr reader thread

\* codex.rs 374-382: read the next stderr line, emit codex-progress with the
\* cleaned text; the loop ends at end-of-stream as the stdout reader's does
ErrRead(k) ==
    /\ errpc[k] = "reading"
    /\ errbuf[k] > 0
    /\ Emit("codex-progress", lcid[k], k, "stderr", k, "progress")
    /\ errbuf' = [errbuf EXCEPT ![k] = @ - 1]
    /\ UNCHANGED <<isolatedVars, running_codex, pending_approvals, procVars, outbuf, nout, nerr,
                   stdin_lines, launchVars, outVars, errpc, monVars, cancelVars,
                   respondVars, fate>>

\* ---------------------------------------------------------------- monitor thread

\* unwrap_or(0): an exit without a code read as a clean exit
ExitCode_DefaultZero(status) == unwrap_or(status, 0)

\* status.code().unwrap_or(-1), codex.rs 398
ExitCode(status) == unwrap_or(status, -1)

\* the monitor that reports the end of the stream when it finds no entry
MonitorBreak_Emit(k) ==
    /\ monpc[k] = "poll"
    /\ running_codex[lcid[k]] = NoProc
    /\ Emit("codex-stream-end", lcid[k], k, "monitor", k, 0)
    /\ monpc' = [monpc EXCEPT ![k] = "done"]
    /\ UNCHANGED <<isolatedVars, running_codex, pending_approvals, procVars, pipeVars, stdin_lines,
                   launchVars, outVars, errpc, mon_exit_code, mon_inst, cancelVars,
                   respondVars, fate>>

\* codex.rs 394-402: lock running_codex; the conversation id is absent: break
MonitorBreak(k) ==
    /\ monpc[k] = "poll"
    /\ running_codex[lcid[k]] = NoProc
    /\ monpc' = [monpc EXCEPT ![k] = "done"]
    /\ UNCHANGED <<isolatedVars, running_codex, pending_approvals, procVars, pipeVars, stdin_lines,
                   events, launchVars, outVars, errpc, mon_exit_code, mon_inst, cancelVars,
                   respondVars, fate>>

\* the monitor's poll without guard.remove(&cid_wait)
MonitorPoll_NoRemove(k, status) ==
    /\ monpc[k] = "poll"
    /\ running_codex[lcid[k]] # NoProc
    /\ LET q == running_codex[lcid[k]] IN
         /\ try_wait(q) = "exited"
         /\ pstatus' = [pstatus EXCEPT ![q] = status]
         /\ mon_exit_code' = [mon_exit_code EXCEPT ![k] = ExitCode(status)]
         /\ mon_inst' = [mon_inst EXCEPT ![k] = q]
    /\ monpc' = [monpc EXCEPT ![k] = "purge"]
    /\ fate' = [r \in Rids |-> IF pending_approvals[r] = lcid[k] THEN "orphaned" ELSE fate[r]]
    /\ UNCHANGED <<isolatedVars, running_codex, pending_approvals, pstate, hasStdin, pipeVars,
                   stdin_lines, events, launchVars, outVars, errpc, cancelVars, respondVars>>

\* codex.rs 392-408: lock running_codex; the child registered under the
\* conversation id has exited: take its exit code and remove the entry.  (A
\* poll that finds the child still running sleeps 100 ms and polls again: no
\* state change.)
MonitorPoll(k, status) ==
    /\ monpc[k] = "poll"
    /\ running_codex[lcid[k]] # NoProc
    /\ LET q == running_codex[lcid[k]] IN
         /\ try_wait(q) = "exited"
         /\ pstatus' = [pstatus EXCEPT ![q] = status]
         /\ mon_exit_code' = [mon_exit_code EXCEPT ![k] = ExitCode(status)]
         /\ mon_inst' = [mon_inst EXCEPT ![k] = q]
    /\ running_codex' = [running_codex EXCEPT ![lcid[k]] = NoProc]
    /\ monpc' = [monpc EXCEPT ![k] = "purge"]
    /\ fate' = [r \in Rids |-> IF pending_approvals[r] = lcid[k] THEN "orphaned" ELSE fate[r]]
    /\ UNCHANGED <<isolatedVars, pending_approvals, pstate, hasStdin, pipeVars, stdin_lines, events,
                   launchVars, outVars, errpc, cancelVars, respondVars>>

\* codex.rs 410-417: lock pending_approvals; purge the conversation's approvals
MonitorPurge(k) ==
    /\ monpc[k] = "purge"
    /\ pending_approvals' = retain(pending_approvals, lcid[k])
    /\ monpc' = [monpc EXCEPT ![k] = "emit"]
    /\ fate' = [r \in Rids |-> IF pending_approvals[r] = lcid[k] /\ fate[r] = "orphaned"
                                  THEN "purged" ELSE fate[r]]
    /\ UNCHANGED <<isolatedVars, running_codex, procVars, pipeVars, stdin_lines, events, launchVars,
                   outVars, errpc, mon_exit_code, mon_inst, cancelVars, respondVars>>

\* codex.rs 419-427: the terminal event, then break
MonitorEmit(k) ==
    /\ monpc[k] = "emit"
    /\ IF mon_exit_code[k] = 0
          THEN Emit("codex-stream-end", lcid[k], mon_inst[k], "monitor", k, 0)
          ELSE Emit("codex-stream-error", lcid[k], mon_inst[k], "monitor", k,
                    mon_exit_code[k])
    /\ monpc' = [monpc EXCEPT ![k] = "done"]
    /\ UNCHANGED <<isolatedVars, running_codex, pending_approvals, procVars, pipeVars, stdin_lines,
                   launchVars, outVars, errpc, mon_exit_code, mon_inst, cancelVars,
                   respondVars, fate>>

\* ---------------------------------------------------------------- cancel_prompt

\* codex.rs 266-273: lock running_codex; remove and kill the process if present
CancelRemove(j, c) ==
    /\ cpc[j] = "idle"
    /\ IF j = 1 THEN TRUE ELSE cpc[j - 1] # "idle"
    /\ OpsStarted < MaxOps
    /\ ccid' = [ccid EXCEPT ![j] = c]
    /\ cpc' = [cpc EXCEPT ![j] = "purge"]
    /\ had_process' = [had_process EXCEPT ![j] = running_codex[c] # NoProc]
    /\ cinst' = [cinst EXCEPT ![j] = running_codex[c]]
    /\ IF running_codex[c] # NoProc
          THEN /\ kill(running_codex[c])
               /\ running_codex' = [running_codex EXCEPT ![c] = NoProc]
               /\ fate' = [r \in Rids |->
                              IF pending_approvals[r] = c THEN "orphaned" ELSE fate[r]]
          ELSE UNCHANGED <<running_codex, pstate, fate>>
    /\ cafter' = [cafter EXCEPT ![j] =
          IF /\ \A j2 \in Cancels : cpc[j2] # "idle" => ccid[j2] # c
             /\ Cardinality({k \in Pids : lpc[k] # "idle" /\ lcid[k] = c}) = 1
             /\ \E k \in Pids : lcid[k] = c /\ lpc[k] = "done"
             THEN CHOOSE k \in Pids : lcid[k] = c /\ lpc[k] = "done"
             ELSE NoProc]
    /\ UNCHANGED <<isolatedVars, pending_approvals, pstatus, hasStdin, pipeVars, stdin_lines, events,
                   launchVars, outVars, errpc, monVars, respondVars, cresult>>

\* cancel_prompt without the retain on pending_approvals
CancelPurge_NoRetain(j) ==
    /\ cpc[j] = "purge"
    /\ cpc' = [cpc EXCEPT ![j] = "emit"]
    /\ fate' = [r \in Rids |-> IF pending_approvals[r] = ccid[j] /\ fate[r] = "orphaned"
                                  THEN "purged" ELSE fate[r]]
    /\ UNCHANGED <<isolatedVars, running_codex, pending_approvals, procVars, pipeVars, stdin_lines,
                   events, launchVars, outVars, errpc, monVars, ccid, had_process, cinst,
                   cafter, cresult, respondVars>>

\* codex.rs 274-278: lock pending_approvals; purge the conversation's approvals
CancelPurge(j) ==
    /\ cpc[j] = "purge"
    /\ pending_approvals' = retain(pending_approvals, ccid[j])
    /\ cpc' = [cpc EXCEPT ![j] = "emit"]
    /\ fate' = [r \in Rids |-> IF pending_approvals[r] = ccid[j] /\ fate[r] = "orphaned"
                                  THEN "purged" ELSE fate[r]]
    /\ UNCHANGED <<isolatedVars, running_codex, procVars, pipeVars, stdin_lines, events, launchVars,
                   outVars, errpc, monVars, ccid, had_process, cinst, cafter, cresult, respondVars>>

\* cancel_prompt that never emits
CancelEmit_Silent(j) ==
    /\ cpc[j] = "emit"
    /\ cresult' = [cresult EXCEPT ![j] = [success |-> TRUE]]
    /\ cpc' = [cpc EXCEPT ![j] = "done"]
    /\ UNCHANGED <<isolatedVars, running_codex, pending_approvals, procVars, pipeVars, stdin_lines,
                   events, launchVars, outVars, errpc, monVars, ccid, had_process, cinst,
                   cafter, respondVars, fate>>

\* codex.rs 279-285: the cancelled codex-stream-end if a process was removed;
\* return { success: true }
CancelEmit(j) ==
    /\ cpc[j] = "emit"
    /\ IF had_process[j]
          THEN Emit("codex-stream-end", ccid[j], cinst[j], "cancel", j, "cancelled")
          ELSE UNCHANGED events
    /\ cresult' = [cresult EXCEPT ![j] = [success |-> TRUE]]
    /\ cpc' = [cpc EXCEPT ![j] = "done"]
    /\ UNCHANGED <<isolatedVars, running_codex, pending_approvals, procVars, pipeVars, stdin_lines,
                   launchVars, outVars, errpc, monVars, ccid, had_process, cinst, cafter,
                   respondVars, fate>>

\* ---------------------------------------------------------------- respond_to_approval

\* handle.write_all on the child's stdin pipe (codex.rs 502-507): it succeeds
\* while the child holds the read end, and fails (broken pipe) once it is gone
stdin_write_ok(p) == pstate[p] = "alive"

\* respond_to_approval that answers success for a request id it does not find
RespondRemove_NotFoundOk(i, r, approved) ==
    /\ rpc[i] = "idle"
    /\ IF i = 1 THEN TRUE ELSE rpc[i - 1] # "idle"
    /\ OpsStarted < MaxOps
    /\ rrid' = [rrid EXCEPT ![i] = r]
    /\ rapproved' = [rapproved EXCEPT ![i] = approved]
    /\ rpending' = [rpending EXCEPT ![i] = pending_approvals[r]]
    /\ rfate' = [rfate EXCEPT ![i] = fate[r]]
    /\ pending_approvals' = [pending_approvals EXCEPT ![r] = NoCid]
    /\ IF pending_approvals[r] = NoCid
          THEN /\ rresult' = [rresult EXCEPT ![i] = "success"]
               /\ rpc' = [rpc EXCEPT ![i] = "done"]
          ELSE /\ rpc' = [rpc EXCEPT ![i] = "lookup"]
               /\ UNCHANGED rresult
    /\ UNCHANGED <<isolatedVars, running_codex, procVars, pipeVars, stdin_lines, events, launchVars,
                   outVars, errpc, monVars, cancelVars, rinst, fate>>

\* respond_to_approval that looks the request id up and leaves the entry
RespondRemove_KeepEntry(i, r, approved) ==
    /\ rpc[i] = "idle"
    /\ IF i = 1 THEN TRUE ELSE rpc[i - 1] # "idle"
    /\ OpsStarted < MaxOps
    /\ rrid' = [rrid EXCEPT ![i] = r]
    /\ rapproved' = [rapproved EXCEPT ![i] = approved]
    /\ rpending' = [rpending EXCEPT ![i] = pending_approvals[r]]
    /\ rfate' = [rfate EXCEPT ![i] = fate[r]]
    /\ IF pending_approvals[r] = NoCid
          THEN /\ rresult' = [rresult EXCEPT ![i] = "Approval request not found"]
               /\ rpc' = [rpc EXCEPT ![i] = "done"]
          ELSE /\ rpc' = [rpc EXCEPT ![i] = "lookup"]
               /\ UNCHANGED rresult
    /\ UNCHANGED <<isolatedVars, running_codex, pending_approvals, procVars, pipeVars, stdin_lines,
                   events, launchVars, outVars, errpc, monVars, cancelVars, rinst, fate>>

\* codex.rs 480-483: lock pending_approvals; remove the request id
RespondRemove(i, r, approved) ==
    /\ rpc[i] = "idle"
    /\ IF i = 1 THEN TRUE ELSE rpc[i - 1] # "idle"
    /\ OpsStarted < MaxOps
    /\ rrid' = [rrid EXCEPT ![i] = r]
    /\ rapproved' = [rapproved EXCEPT ![i] = approved]
    /\ rpending' = [rpending EXCEPT ![i] = pending_approvals[r]]
    /\ rfate' = [rfate EXCEPT ![i] = fate[r]]
    /\ pending_approvals' = [pending_approvals EXCEPT ![r] = NoCid]
    /\ IF pending_approvals[r] = NoCid
          THEN /\ rresult' = [rresult EXCEPT ![i] = "Approval request not found"]
               /\ rpc' = [rpc EXCEPT ![i] = "done"]
          ELSE /\ rpc' = [rpc EXCEPT ![i] = "lookup"]
               /\ UNCHANGED rresult
    /\ UNCHANGED <<isolatedVars, running_codex, procVars, pipeVars, stdin_lines, events, launchVars,
                   outVars, errpc, monVars, cancelVars, rinst, fate>>

\* respond_to_approval that ignores the result of write_all
RespondWrite_IgnoreErr(i) ==
    /\ rpc[i] = "lookup"
    /\ LET p == running_codex[rpending[i]] IN
         /\ rinst' = [rinst EXCEPT ![i] = p]
         /\ rresult' = [rresult EXCEPT ![i] =
               IF p = NoProc THEN "Conversation process not running"
               ELSE IF ~hasStdin[p] THEN "Process stdin is not available"
               ELSE "success"]
         /\ stdin_lines' =
               IF p # NoProc /\ hasStdin[p] /\ stdin_write_ok(p)
                  THEN [stdin_lines EXCEPT ![p] =
                           Append(@, [request_id |-> rrid[i], approved |-> rapproved[i],
                                      call |-> i])]
                  ELSE stdin_lines
    /\ rpc' = [rpc EXCEPT ![i] = "done"]
    /\ UNCHANGED <<isolatedVars, running_codex, pending_approvals, procVars, pipeVars, events,
                   launchVars, outVars, errpc, monVars, cancelVars, rrid, rapproved,
                   rpending, rfate, fate>>

\* respond_to_approval that reports a failed write as a process not running
RespondWrite_Collapsed(i) ==
    /\ rpc[i] = "lookup"
    /\ LET p == running_codex[rpending[i]] IN
         /\ rinst' = [rinst EXCEPT ![i] = p]
         /\ rresult' = [rresult EXCEPT ![i] =
               IF p = NoProc THEN "Conversation process not running"
               ELSE IF ~hasStdin[p] THEN "Process stdin is not available"
               ELSE IF ~stdin_write_ok(p) THEN "Conversation process not running"
               ELSE "success"]
         /\ stdin_lines' =
               IF p # NoProc /\ hasStdin[p] /\ stdin_write_ok(p)
                  THEN [stdin_lines EXCEPT ![p] =
                           Append(@, [request_id |-> rrid[i], approved |-> rapproved[i],
                                      call |-> i])]
                  ELSE stdin_lines
    /\ rpc' = [rpc EXCEPT ![i] = "done"]
    /\ UNCHANGED <<isolatedVars, running_codex, pending_approvals, procVars, pipeVars, events,
                   launchVars, outVars, errpc, monVars, cancelVars, rrid, rapproved,
                   rpending, rfate, fate>>

\* codex.rs 485-513: lock running_codex; find the owning conversation's process,
\* take its stdin handle, write the decision line
RespondWrite(i) ==
    /\ rpc[i] = "lookup"
    /\ LET p == running_codex[rpending[i]] IN
         /\ rinst' = [rinst EXCEPT ![i] = p]
         /\ rresult' = [rresult EXCEPT ![i] =
               IF p = NoProc THEN "Conversation process not running"
               ELSE IF ~hasStdin[p] THEN "Process stdin is not available"
               ELSE IF ~stdin_write_ok(p) THEN "io error"
               ELSE "success"]
         /\ stdin_lines' =
               IF p # NoProc /\ hasStdin[p] /\ stdin_write_ok(p)
                  THEN [stdin_lines EXCEPT ![p] =
                           Append(@, [request_id |-> rrid[i], approved |-> rapproved[i],
                                      call |-> i])]
                  ELSE stdin_lines
    /\ rpc' = [rpc EXCEPT ![i] = "done"]
    /\ UNCHANGED <<isolatedVars, running_codex, pending_approvals, procVars, pipeVars, events,
                   launchVars, outVars, errpc, monVars, cancelVars, rrid, rapproved,
                   rpending, rfate, fate>>

\* ---------------------------------------------------------------- specification

Next ==
    \/ \E k \in Pids, c \in Cids : StreamCodexKill(k, c)
    \/ \E k \in Pids, ok \in BOOLEAN : StreamCodexSpawn(k, ok)
    \/ \E k \in Pids : StreamCodexInsert(k)
    \/ \E p \in Pids : ProcWrite(p)
    \/ \E p \in Pids : ProcWriteErr(p)
    \/ \E p \in Pids : ProcExit(p)
    \/ \E k \in Pids, line \in StdoutLines : OutRead(k, line)
    \/ \E k \in Pids : OutRegister(k)
    \/ \E k \in Pids : ErrRead(k)
    \/ \E k \in Pids : MonitorBreak(k)
    \/ \E k \in Pids, status \in ExitStatuses : MonitorPoll(k, status)
    \/ \E k \in Pids : MonitorPurge(k)
    \/ \E k \in Pids : MonitorEmit(k)
    \/ \E j \in Cancels, c \in Cids : CancelRemove(j, c)
    \/ \E j \in Cancels : CancelPurge(j)
    \/ \E j \in Cancels : CancelEmit(j)
    \/ \E i \in Responds, r \in Rids, approved \in BOOLEAN : RespondRemove(i, r, approved)
    \/ \E i \in Responds : RespondWrite(i)

Spec == Init /\ [][Next]_vars

\* ---------------------------------------------------------------- DeltaSpec: the text deltas

\* extract_text_delta that never diffs: the delta is always the whole new text
extract_text_delta_NoDiff(cache, item_id, full_text, is_terminal) ==
    IF full_text = <<>> \/ item_id = ""
       THEN [delta |-> <<>>, cache |-> cache]
       ELSE [delta |-> full_text,
             cache |-> IF is_terminal THEN [cache EXCEPT ![item_id] = None]
                                      ELSE [cache EXCEPT ![item_id] = Some(full_text)]]

\* extract_text_delta that, for a text that does not start with the cached
\* one, returns what follows the cached text's length
extract_text_delta_PartialDiff(cache, item_id, full_text, is_terminal) ==
    IF full_text = <<>> \/ item_id = ""
       THEN [delta |-> <<>>, cache |-> cache]
       ELSE LET previous == unwrap_or(cache[item_id], <<>>) IN
            [delta |-> SubSeq(full_text, Len(previous) + 1, Len(full_text)),
             cache |-> IF is_terminal THEN [cache EXCEPT ![item_id] = None]
                                      ELSE [cache EXCEPT ![item_id] = Some(full_text)]]

\* utils.rs 241-271: the delta returned and the cache as the call leaves it
extract_text_delta(cache, item_id, full_text, is_terminal) ==
    IF full_text = <<>> \/ item_id = ""
       THEN [delta |-> <<>>, cache |-> cache]
       ELSE LET previous == unwrap_or(cache[item_id], <<>>) IN
            [delta |-> IF starts_with(full_text, previous)
                          THEN SubSeq(full_text, Len(previous) + 1, Len(full_text))
                          ELSE full_text,
             cache |-> IF is_terminal THEN [cache EXCEPT ![item_id] = None]
                                      ELSE [cache EXCEPT ![item_id] = Some(full_text)]]

\* utils.rs 373-405 (parse_codex_event, the item.started / item.updated /
\* item.completed arm for the text items): lower-case the item type; for
\* reasoning, agent_message and message take the delta of item.text against the
\* cache and emit it unless it is empty.  A missing id or text reads as "".
ParseItemEvent(event) ==
    /\ dn < MaxEvents
    /\ dn' = dn + 1
    /\ \E item_type \in {to_ascii_lowercase(event.item_type)},
          terminal \in {event.type = "item.completed"} :
       \E r \in {extract_text_delta(item_text_by_id, event.id, event.text, terminal)},
          h \in {dhist[event.id]} :
          IF item_type \in {S_reasoning, S_agent_message, S_message}
             THEN /\ item_text_by_id' = r.cache
                  /\ dcall' = [called |-> TRUE, item_id |-> event.id,
                               full_text |-> event.text, is_terminal |-> terminal,
                               previous |-> item_text_by_id[event.id],
                               delta |-> r.delta,
                               emitted |-> IF r.delta = <<>> THEN <<>>
                                           ELSE IF item_type = S_reasoning
                                                   THEN <<"codex-thinking-delta",
                                                          "codex-thinking">>
                                                   ELSE <<"codex-stream-delta">>]
                  /\ dhist' = [dhist EXCEPT ![event.id] =
                                  [n |-> h.n + 1,
                                   last |-> event.text,
                                   concat |-> h.concat \o r.delta,
                                   chain |-> h.chain /\ starts_with(event.text, h.last),
                                   ended |-> h.ended \/ h.term,
                                   term |-> terminal]]
             ELSE /\ dcall' = NoCall
                  /\ UNCHANGED <<item_text_by_id, dhist>>
    /\ UNCHANGED <<codexVars, approvalVars, readerVars, lockVars, ptyVars,
                   pevent, pemitted, pret, phist>>

DeltaNext == \E event \in ItemEvents : ParseItemEvent(event)

DeltaSpec == Init /\ [][DeltaNext]_vars

\* ---------------------------------------------------------------- ApprovalSpec: approval detection

\* serde_json::Value::get(key): None when the object has no such key
get(event, key) == IF event[key] = Absent THEN None ELSE Some(event[key])

\* Option::or_else
or_else(opt, other) == IF opt = None THEN other ELSE opt

\* .and_then(|v| v.as_str()): the string of a string value, None for any other
and_then_as_str(opt) ==
    IF opt = None THEN None
    ELSE IF opt[1].kind = "string" THEN Some(opt[1].s) ELSE None

\* utils.rs 273-319: Some(request_id, title) or None (the description text is
\* not modelled)
try_extract_approval_request(event) ==
    LET event_type == unwrap_or(and_then_as_str(get(event, "type")), <<>>)
        method == unwrap_or(and_then_as_str(get(event, "method")), <<>>)
        maybe_approval == \/ contains(to_ascii_lowercase(event_type), S_approval)
                          \/ contains(to_ascii_lowercase(method), S_approval)
        request_id ==
            unwrap_or(and_then_as_str(or_else(or_else(get(event, "requestId"),
                                                      get(event, "request_id")),
                                              get(event, "id"))),
                      <<>>)
        title ==
            unwrap_or(and_then_as_str(or_else(get(event, "title"), get(event, "method"))),
                      S_Approval_requested)
    IN IF ~maybe_approval THEN None
       ELSE IF request_id = <<>> THEN None
       ELSE Some([request_id |-> request_id, title |-> title])

\* an event is drawn, decoded from one line of the agent's stdout
ApprovalInit ==
    /\ CodexInit
    /\ DeltaInit
    /\ ReaderIdle
    /\ LockIdle
    /\ PtyIdle
    /\ aevent \in ApprovalEvents
    /\ aresult = NotCalled

\* utils.rs 329: parse_codex_event asks try_extract_approval_request
TryExtractApprovalRequest ==
    /\ aresult = NotCalled
    /\ aresult' = [called |-> TRUE, ret |-> try_extract_approval_request(aevent)]
    /\ UNCHANGED <<codexVars, deltaVars, readerVars, lockVars, ptyVars, aevent>>

ApprovalNext == TryExtractApprovalRequest

ApprovalSpec == ApprovalInit /\ [][ApprovalNext]_vars

\* ---------------------------------------------------------------- ParseSpec: one event after another

\* utils.rs 417-421, 464-468, 489-493: item.status as a string, "in_progress"
\* when it is absent or no string, in lower case
item_status(item) ==
    to_ascii_lowercase(unwrap_or(and_then_as_str(get(item, "status")), S_in_progress))

\* utils.rs 446-451: the tool status of a command_execution item
tool_status_command_execution(status) ==
    IF status = S_completed THEN S_done
    ELSE IF status = S_failed THEN S_error
    ELSE IF status = S_declined THEN S_error
    ELSE S_running

\* utils.rs 474-478: the tool status of an mcp_tool_call item
tool_status_mcp_tool_call(status) ==
    IF status = S_completed THEN S_done
    ELSE IF status = S_failed THEN S_error
    ELSE S_running

\* utils.rs 498-502: the tool status of a file_change item
tool_status_file_change(status) ==
    IF status = S_completed THEN S_done
    ELSE IF status = S_failed THEN S_error
    ELSE S_running

\* the emits of a text delta: none for an empty delta, the two thinking events
\* for a reasoning item, one stream delta otherwise
EmitDelta(reasoning, delta) ==
    IF delta = <<>> THEN <<>>
    ELSE IF reasoning THEN <<Emitted("codex-thinking-delta", delta),
                             Emitted("codex-thinking", delta)>>
    ELSE <<Emitted("codex-stream-delta", delta)>>

\* utils.rs 348-372: the item.streaming arm; the item type is compared as it
\* is, and the cache is neither read nor written
parse_item_streaming(cache, event) ==
    [emitted |-> IF event.has_item
                    THEN EmitDelta(event.item.type = S_reasoning, event.item.delta)
                    ELSE <<>>,
     cache |-> cache]

\* utils.rs 373-514: the item.started / item.updated / item.completed arm
parse_item(cache, event, terminal) ==
    IF ~event.has_item THEN [emitted |-> <<>>, cache |-> cache]
    ELSE
    LET item == event.item
        item_type == to_ascii_lowercase(item.type)
        status == item_status(item)
    IN  IF item_type \in {S_reasoning, S_agent_message, S_message}
           THEN LET r == extract_text_delta(cache, item.id, item.text, terminal) IN
                [emitted |-> EmitDelta(item_type = S_reasoning, r.delta), cache |-> r.cache]
        ELSE IF item_type = S_command_execution
           THEN [emitted |->
                    <<[name |-> "codex-terminal-output", data |-> <<>>,
                       exitCode |-> IF status \in {S_completed, S_failed, S_declined}
                                       THEN Some(-1) ELSE None],
                      Emitted("codex-tool-call", tool_status_command_execution(status))>>,
                 cache |-> cache]
        ELSE IF item_type = S_mcp_tool_call
           THEN [emitted |-> <<Emitted("codex-tool-call", tool_status_mcp_tool_call(status))>>,
                 cache |-> cache]
        ELSE IF item_type = S_file_change
           THEN [emitted |-> <<Emitted("codex-tool-call", tool_status_file_change(status))>>,
                 cache |-> cache]
        ELSE [emitted |-> <<>>, cache |-> cache]

\* utils.rs 342-541: the match on the event type, for an event that is no
\* approval request
parse_event_type(cache, event) ==
    LET event_type == unwrap_or(and_then_as_str(get(event, "type")), <<>>) IN
    IF event_type = S_item_streaming THEN parse_item_streaming(cache, event)
    ELSE IF event_type \in {S_item_started, S_item_updated, S_item_completed}
       THEN parse_item(cache, event, event_type = S_item_completed)
    ELSE IF event_type = S_turn_failed
       THEN [emitted |-> <<Emitted("codex-stream-error", S_Turn_failed)>>, cache |-> cache]
    ELSE IF event_type = S_error
       THEN [emitted |-> <<Emitted("codex-stream-error", S_Unknown_error)>>, cache |-> cache]
    ELSE [emitted |-> <<>>, cache |-> cache]

\* parse_codex_event that emits the approval request and goes on to the match
\* on the event type
parse_codex_event_FallThrough(cache, event) ==
    LET approval == try_extract_approval_request(event)
        rest == parse_event_type(cache, event)
    IN  IF approval # None
           THEN [emitted |-> <<Emitted("codex-approval-request", approval[1].request_id)>>
                             \o rest.emitted,
                 cache |-> rest.cache, ret |-> approval]
           ELSE [emitted |-> rest.emitted, cache |-> rest.cache, ret |-> None]

\* utils.rs 321-542: the events emitted, the cache as the call leaves it, and
\* the value returned
parse_codex_event(cache, event) ==
    LET approval == try_extract_approval_request(event) IN
    IF approval # None
       THEN [emitted |-> <<Emitted("codex-approval-request", approval[1].request_id)>>,
             cache |-> cache, ret |-> approval]
       ELSE LET rest == parse_event_type(cache, event) IN
            [emitted |-> rest.emitted, cache |-> rest.cache, ret |-> None]

\* the texts of the codex-stream-delta events among the emitted ones, joined
RECURSIVE StreamDeltaText(_)
StreamDeltaText(emitted) ==
    IF emitted = <<>> THEN <<>>
    ELSE (IF Head(emitted).name = "codex-stream-delta" THEN Head(emitted).data ELSE <<>>)
         \o StreamDeltaText(Tail(emitted))

\* the history of an item after one more event of it: an event taken as an
\* approval request delivers nothing of the item
NextParseHist(h, event, r) ==
    IF ~event.has_item \/ r.ret # None THEN h
    ELSE
    LET streaming == event.type = Str(S_item_streaming)
        is_message == IF streaming THEN event.item.type # S_reasoning
                      ELSE to_ascii_lowercase(event.item.type) \in {S_agent_message, S_message}
        full == IF streaming THEN h.full \o event.item.delta ELSE event.item.text
    IN  [concat |-> h.concat \o StreamDeltaText(r.emitted),
         full |-> IF is_message THEN full ELSE h.full,
         grows |-> h.grows /\ (is_message => starts_with(full, h.full)),
         message |-> h.message /\ is_message,
         ended |-> h.ended \/ h.term,
         term |-> event.type = Str(S_item_completed),
         streamed |-> h.streamed \/ streaming,
         n |-> h.n + 1]

\* codex.rs 345-352: the stdout reader gives one decoded event to
\* parse_codex_event, with the cache of its conversation
ParseCodexEvent(event) ==
    /\ dn < MaxEvents
    /\ dn' = dn + 1
    /\ \E r \in {parse_codex_event(item_text_by_id, event)} :
          /\ item_text_by_id' = r.cache
          /\ pevent' = event
          /\ pemitted' = r.emitted
          /\ pret' = [called |-> TRUE, ret |-> r.ret]
          /\ phist' = [phist EXCEPT ![event.item.id] = NextParseHist(@, event, r)]
    /\ UNCHANGED <<codexVars, approvalVars, readerVars, lockVars, ptyVars, dcall, dhist>>

ParseNext == \E event \in ParseEvents : ParseCodexEvent(event)

ParseSpec == Init /\ [][ParseNext]_vars

\* ---------------------------------------------------------------- ReaderSpec: the stdout reader

Whitespace == {" ", "\t", "\r", "\n"}

\* str::trim: without the whitespace at both ends
RECURSIVE trim(_)
trim(s) ==
    IF s = <<>> THEN s
    ELSE IF Head(s) \in Whitespace THEN trim(Tail(s))
    ELSE IF s[Len(s)] \in Whitespace THEN trim(SubSeq(s, 1, Len(s) - 1))
    ELSE s

\* a reader that cuts the line feed and leaves a carriage return before it
strip_eol_KeepCR(bytes) ==
    IF bytes # <<>> /\ bytes[Len(bytes)] = "\n"
       THEN SubSeq(bytes, 1, Len(bytes) - 1)
       ELSE bytes

\* BufRead::lines (codex.rs 345): a line comes without its "\n" or "\r\n"
strip_eol(bytes) ==
    IF bytes # <<>> /\ bytes[Len(bytes)] = "\n"
       THEN LET cut == SubSeq(bytes, 1, Len(bytes) - 1) IN
            IF cut # <<>> /\ cut[Len(cut)] = "\r"
               THEN SubSeq(cut, 1, Len(cut) - 1)
               ELSE cut
       ELSE bytes

\* a reader that takes the newest line of the pipe
next_line_Newest(pipe) == Len(pipe)

\* the pipe is first in, first out: the reader's next line is the oldest
next_line(pipe) == 1

\* the events parse_codex_event emits for a decoded line (utils.rs 321-546)
JsonEventNames(json) ==
    CASE json = "approval" -> <<"codex-approval-request">>
      [] json = "delta" -> <<"codex-stream-delta">>
      [] json = "thinking" -> <<"codex-thinking-delta", "codex-thinking">>
      [] OTHER -> <<>>

\* the state stream_codex("A", ..) leaves when it has returned Ok for the
\* first time: instance 1 registered under A, its three threads started;
\* pending: the approvals its stdout reader has registered since
LaunchedWith(pending) ==
    /\ running_codex = [c \in Cids |-> IF c = "A" THEN 1 ELSE NoProc]
    /\ pending_approvals = pending
    /\ pstate = [p \in Pids |-> IF p = 1 THEN "alive" ELSE "unborn"]
    /\ pstatus = [p \in Pids |-> None]
    /\ hasStdin = [p \in Pids |-> p = 1]
    /\ outbuf = [p \in Pids |-> 0]
    /\ errbuf = [p \in Pids |-> 0]
    /\ nout = 0
    /\ nerr = 0
    /\ stdin_lines = [p \in Pids |-> <<>>]
    /\ events = [p \in Pids |-> <<>>]
    /\ lpc = [k \in Pids |-> IF k = 1 THEN "done" ELSE "idle"]
    /\ lcid = [k \in Pids |-> IF k = 1 THEN "A" ELSE NoCid]
    /\ outpc = [k \in Pids |-> IF k = 1 THEN "reading" ELSE "off"]
    /\ outreq = [k \in Pids |-> "-"]
    /\ errpc = [k \in Pids |-> IF k = 1 THEN "reading" ELSE "off"]
    /\ monpc = [k \in Pids |-> IF k = 1 THEN "poll" ELSE "off"]
    /\ mon_exit_code = [k \in Pids |-> 0]
    /\ mon_inst = [k \in Pids |-> NoProc]
    /\ cpc = [j \in Cancels |-> "idle"]
    /\ ccid = [j \in Cancels |-> NoCid]
    /\ had_process = [j \in Cancels |-> FALSE]
    /\ cinst = [j \in Cancels |-> NoProc]
    /\ rpc = [i \in Responds |-> "idle"]
    /\ rrid = [i \in Responds |-> "-"]
    /\ rapproved = [i \in Responds |-> FALSE]
    /\ rpending = [i \in Responds |-> NoCid]
    /\ rresult = [i \in Responds |-> "-"]
    /\ rinst = [i \in Responds |-> NoProc]
    /\ fate = [r \in Rids |-> "-"]
    /\ rfate = [i \in Responds |-> "-"]
    /\ cafter = [j \in Cancels |-> NoProc]
    /\ cresult = [j \in Cancels |-> NotReturned]

LaunchedInit == LaunchedWith([r \in Rids |-> NoCid])

ReaderInit ==
    /\ LaunchedInit
    /\ DeltaInit
    /\ ApprovalIdle
    /\ LockIdle
    /\ PtyIdle
    /\ sout_lines = <<>>
    /\ sout_pipe = <<>>
    /\ sout_pc = "reading"
    /\ sout_read = 0
    /\ sout_events = <<>>

\* the variables of Spec that ReaderSpec leaves alone
readerFrame ==
    <<running_codex, pstatus, hasStdin, outbuf, errbuf, nout, nerr, stdin_lines, events,
      lpc, lcid, outpc, outreq, errpc, monpc, mon_exit_code, mon_inst, cpc, ccid,
      had_process, cinst, rpc, rrid, rapproved, rpending, rresult, rinst, fate, rfate,
      cafter, cresult, deltaVars, approvalVars, lockVars, ptyVars>>

\* the agent writes one line, with its terminator, to its stdout
AgentWriteLine(line) ==
    /\ pstate[1] = "alive"
    /\ Len(sout_lines) < MaxReaderLines
    /\ sout_lines' = Append(sout_lines, line)
    /\ sout_pipe' = Append(sout_pipe, [n |-> Len(sout_lines) + 1,
                                       bytes |-> line.text \o line.eol,
                                       json |-> line.json, utf8 |-> line.utf8])
    /\ UNCHANGED <<readerFrame, pstate, pending_approvals, sout_pc, sout_read, sout_events>>

\* the agent ends: the write end of the pipe closes
AgentExit ==
    /\ pstate[1] = "alive"
    /\ pstate' = [pstate EXCEPT ![1] = "exited"]
    /\ UNCHANGED <<readerFrame, pending_approvals, readerVars>>

\* codex.rs 345-367, one turn of the reader's loop: the next line of the pipe;
\* a read error (bytes that are no UTF-8) ends the loop (map_while); a line that
\* is blank after trim is skipped; a line that decodes goes to
\* parse_codex_event, and an approval request it returns is inserted into
\* pending_approvals; any other line is emitted as codex-stream-token
StdoutReaderLine ==
    /\ sout_pc = "reading"
    /\ sout_pipe # <<>>
    /\ \E at \in {next_line(sout_pipe)} :
       \E got \in {sout_pipe[at]} :
       \E line \in {strip_eol(got.bytes)} :
          /\ sout_pipe' = [m \in 1..(Len(sout_pipe) - 1) |->
                              IF m < at THEN sout_pipe[m] ELSE sout_pipe[m + 1]]
          /\ sout_read' = sout_read + 1
          /\ IF ~got.utf8
                THEN /\ sout_pc' = "ended"
                     /\ UNCHANGED <<sout_events, pending_approvals>>
                ELSE /\ UNCHANGED sout_pc
                     /\ IF trim(line) = <<>>
                           THEN UNCHANGED <<sout_events, pending_approvals>>
                           ELSE IF got.json # "no"
                                   THEN /\ sout_events' = sout_events \o
                                              [m \in DOMAIN JsonEventNames(got.json) |->
                                                  [name |-> JsonEventNames(got.json)[m],
                                                   cid |-> lcid[1], data |-> got.json,
                                                   line |-> got.n]]
                                        /\ pending_approvals' =
                                              IF got.json = "approval"
                                                 THEN [pending_approvals EXCEPT
                                                          ![ReaderRid] = lcid[1]]
                                                 ELSE pending_approvals
                                   ELSE /\ sout_events' = Append(sout_events,
                                              [name |-> "codex-stream-token",
                                               cid |-> lcid[1], data |-> line,
                                               line |-> got.n])
                                        /\ UNCHANGED pending_approvals
    /\ UNCHANGED <<readerFrame, pstate, sout_lines>>

\* codex.rs 345: end of stream, the pipe is empty and its write end closed
StdoutReaderEof ==
    /\ sout_pc = "reading"
    /\ sout_pipe = <<>>
    /\ pstate[1] # "alive"
    /\ sout_pc' = "ended"
    /\ UNCHANGED <<readerFrame, pstate, pending_approvals, sout_lines, sout_pipe, sout_read,
                   sout_events>>

ReaderNext ==
    \/ \E line \in ReaderLines : AgentWriteLine(line)
    \/ AgentExit
    \/ StdoutReaderLine
    \/ StdoutReaderEof

ReaderSpec == ReaderInit /\ [][ReaderNext]_vars

\* ---------------------------------------------------------------- LockSpec: lock by lock

\* In LockSpec every lock() of running_codex, every unlock (the guard going out
\* of scope) and every operation on a child process is a step of its own.  It
\* starts where conversation A's first launch has returned and the stdout
\* reader has registered two approval requests of A.  Steps that take no
\* running_codex lock are those of Spec.

LockInit ==
    /\ LaunchedWith([r \in Rids |-> "A"])
    /\ DeltaInit
    /\ ApprovalIdle
    /\ ReaderIdle
    /\ LockIdle
    /\ PtyIdle

\* the variables no step of LockSpec's own changes
lockFrame ==
    <<pipeVars, stdin_lines, events, outVars, errpc, fate, rfate, cafter, cresult, deltaVars,
      approvalVars, readerVars, ptyVars>>

\* MutexGuard dropped: the lock is free again if thread me held it
unlock(lock, me) == IF lock = me THEN Free ELSE lock

\* an operation on a child process done by thread me
LogIo(by, op, me) ==
    io_log' = io_log \cup {[by |-> by, op |-> op, registry_locked |-> reg_lock = me]}

\* codex.rs 485-492: lock running_codex (the guard lives to the end of the
\* function); get_mut the owning conversation's process and clone its stdin
\* handle; either failure returns, which drops the guard
RespondLockRegistry(i) ==
    /\ rpc[i] = "lookup"
    /\ reg_lock = Free
    /\ LET p == running_codex[rpending[i]] IN
         /\ rinst' = [rinst EXCEPT ![i] = p]
         /\ IF p = NoProc
               THEN /\ rresult' = [rresult EXCEPT ![i] = "Conversation process not running"]
                    /\ rpc' = [rpc EXCEPT ![i] = "done"]
                    /\ UNCHANGED reg_lock
               ELSE IF ~hasStdin[p]
                       THEN /\ rresult' = [rresult EXCEPT ![i] =
                                             "Process stdin is not available"]
                            /\ rpc' = [rpc EXCEPT ![i] = "done"]
                            /\ UNCHANGED reg_lock
                       ELSE /\ reg_lock' = Thread("respond", i)
                            /\ rpc' = [rpc EXCEPT ![i] = "lock_stdin"]
                            /\ UNCHANGED rresult
    /\ UNCHANGED <<running_codex, pending_approvals, procVars, launchVars, monVars,
                   cpc, ccid, had_process, cinst, rrid, rapproved, rpending, stdin_lock,
                   stdin_bytes, io_log, existing, lockFrame>>

\* codex.rs 500: stdin.lock()
RespondLockStdin(i) ==
    /\ rpc[i] = "lock_stdin"
    /\ stdin_lock[rinst[i]] = Free
    /\ stdin_lock' = [stdin_lock EXCEPT ![rinst[i]] = Thread("respond", i)]
    /\ rpc' = [rpc EXCEPT ![i] = "write_payload"]
    /\ UNCHANGED <<running_codex, pending_approvals, procVars, launchVars, monVars,
                   cpc, ccid, had_process, cinst, rrid, rapproved, rpending, rresult, rinst,
                   reg_lock, stdin_bytes, io_log, existing, lockFrame>>

\* respond_to_approval that lets go of its locks between its two writes
RespondWritePayload_Unlock(i) ==
    /\ rpc[i] = "write_payload"
    /\ LogIo("respond_to_approval", "write", Thread("respond", i))
    /\ reg_lock' = unlock(reg_lock, Thread("respond", i))
    /\ stdin_lock' = [stdin_lock EXCEPT ![rinst[i]] = unlock(@, Thread("respond", i))]
    /\ IF stdin_write_ok(rinst[i])
          THEN /\ stdin_bytes' = [stdin_bytes EXCEPT ![rinst[i]] =
                     Append(@, [call |-> i, part |-> "payload", request_id |-> rrid[i],
                                approved |-> rapproved[i]])]
               /\ rpc' = [rpc EXCEPT ![i] = "write_newline"]
               /\ UNCHANGED rresult
          ELSE /\ rresult' = [rresult EXCEPT ![i] = "io error"]
               /\ rpc' = [rpc EXCEPT ![i] = "done"]
               /\ UNCHANGED stdin_bytes
    /\ UNCHANGED <<running_codex, pending_approvals, procVars, launchVars, monVars,
                   cpc, ccid, had_process, cinst, rrid, rapproved, rpending, rinst,
                   existing, lockFrame>>

\* codex.rs 494-504: handle.write_all(payload.as_bytes()), the payload being
\* the JSON object {request_id, approved}; an error returns, which drops both
\* guards
RespondWritePayload(i) ==
    /\ rpc[i] = "write_payload"
    /\ LogIo("respond_to_approval", "write", Thread("respond", i))
    /\ IF stdin_write_ok(rinst[i])
          THEN /\ stdin_bytes' = [stdin_bytes EXCEPT ![rinst[i]] =
                     Append(@, [call |-> i, part |-> "payload", request_id |-> rrid[i],
                                approved |-> rapproved[i]])]
               /\ rpc' = [rpc EXCEPT ![i] = "write_newline"]
               /\ UNCHANGED <<rresult, reg_lock, stdin_lock>>
          ELSE /\ rresult' = [rresult EXCEPT ![i] = "io error"]
               /\ rpc' = [rpc EXCEPT ![i] = "done"]
               /\ reg_lock' = unlock(reg_lock, Thread("respond", i))
               /\ stdin_lock' = [stdin_lock EXCEPT ![rinst[i]] =
                                    unlock(@, Thread("respond", i))]
               /\ UNCHANGED stdin_bytes
    /\ UNCHANGED <<running_codex, pending_approvals, procVars, launchVars, monVars,
                   cpc, ccid, had_process, cinst, rrid, rapproved, rpending, rinst,
                   existing, lockFrame>>

\* codex.rs 505-513: handle.write_all(b"\n"), then the result; returning drops
\* both guards
RespondWriteNewline(i) ==
    /\ rpc[i] = "write_newline"
    /\ LogIo("respond_to_approval", "write", Thread("respond", i))
    /\ IF stdin_write_ok(rinst[i])
          THEN /\ stdin_bytes' = [stdin_bytes EXCEPT ![rinst[i]] =
                     Append(@, [call |-> i, part |-> "newline", request_id |-> "-",
                                approved |-> FALSE])]
               /\ rresult' = [rresult EXCEPT ![i] = "success"]
          ELSE /\ rresult' = [rresult EXCEPT ![i] = "io error"]
               /\ UNCHANGED stdin_bytes
    /\ rpc' = [rpc EXCEPT ![i] = "done"]
    /\ reg_lock' = unlock(reg_lock, Thread("respond", i))
    /\ stdin_lock' = [stdin_lock EXCEPT ![rinst[i]] = unlock(@, Thread("respond", i))]
    /\ UNCHANGED <<running_codex, pending_approvals, procVars, launchVars, monVars,
                   cpc, ccid, had_process, cinst, rrid, rapproved, rpending, rinst,
                   existing, lockFrame>>

\* codex.rs 266-270: lock running_codex, remove the conversation's entry; with
\* no entry the block ends and the guard is dropped
CancelLockRemove(j, c) ==
    /\ cpc[j] = "idle"
    /\ IF j = 1 THEN TRUE ELSE cpc[j - 1] # "idle"
    /\ OpsStarted < MaxOps
    /\ reg_lock = Free
    /\ ccid' = [ccid EXCEPT ![j] = c]
    /\ had_process' = [had_process EXCEPT ![j] = running_codex[c] # NoProc]
    /\ cinst' = [cinst EXCEPT ![j] = running_codex[c]]
    /\ IF running_codex[c] # NoProc
          THEN /\ running_codex' = [running_codex EXCEPT ![c] = NoProc]
               /\ reg_lock' = Thread("cancel", j)
               /\ cpc' = [cpc EXCEPT ![j] = "kill"]
          ELSE /\ cpc' = [cpc EXCEPT ![j] = "purge"]
               /\ UNCHANGED <<running_codex, reg_lock>>
    /\ UNCHANGED <<pending_approvals, procVars, launchVars, monVars, rpc, rrid, rapproved,
                   rpending, rresult, rinst, stdin_lock, stdin_bytes, io_log, existing,
                   lockFrame>>

\* cancel_prompt whose running_codex guard lives to the end of the function
CancelKill_KeepLock(j) ==
    /\ cpc[j] = "kill"
    /\ kill(cinst[j])
    /\ LogIo("cancel_prompt", "kill", Thread("cancel", j))
    /\ cpc' = [cpc EXCEPT ![j] = "purge"]
    /\ UNCHANGED <<running_codex, pending_approvals, pstatus, hasStdin, launchVars,
                   monVars, ccid, had_process, cinst, rpc, rrid, rapproved, rpending,
                   rresult, rinst, reg_lock, stdin_lock, stdin_bytes, existing, lockFrame>>

\* codex.rs 271-273: process.child.kill(), then the end of the block drops the
\* guard
CancelKill(j) ==
    /\ cpc[j] = "kill"
    /\ kill(cinst[j])
    /\ LogIo("cancel_prompt", "kill", Thread("cancel", j))
    /\ reg_lock' = unlock(reg_lock, Thread("cancel", j))
    /\ cpc' = [cpc EXCEPT ![j] = "purge"]
    /\ UNCHANGED <<running_codex, pending_approvals, pstatus, hasStdin, launchVars,
                   monVars, ccid, had_process, cinst, rpc, rrid, rapproved, rpending,
                   rresult, rinst, stdin_lock, stdin_bytes, existing, lockFrame>>

\* codex.rs 297-299: lock running_codex, remove the conversation's entry.
\* stream_codex is a command without async (codex.rs 288-289): its calls run
\* one after the other, a call begins when the call before it has returned
StreamCodexLockRemove(k, c) ==
    /\ lpc[k] = "idle"
    /\ IF k = 1 THEN TRUE ELSE lpc[k - 1] \in {"done", "failed"}
    /\ OpsStarted < MaxOps
    /\ reg_lock = Free
    /\ lcid' = [lcid EXCEPT ![k] = c]
    /\ existing' = [existing EXCEPT ![k] = running_codex[c]]
    /\ IF running_codex[c] # NoProc
          THEN /\ running_codex' = [running_codex EXCEPT ![c] = NoProc]
               /\ reg_lock' = Thread("launch", k)
               /\ lpc' = [lpc EXCEPT ![k] = "kill"]
          ELSE /\ lpc' = [lpc EXCEPT ![k] = "purge"]
               /\ UNCHANGED <<running_codex, reg_lock>>
    /\ UNCHANGED <<pending_approvals, procVars, monVars, cpc, ccid, had_process, cinst,
                   rpc, rrid, rapproved, rpending, rresult, rinst, stdin_lock, stdin_bytes,
                   io_log, lockFrame>>

\* codex.rs 300-302: existing.child.kill(), then the end of the block drops
\* the guard
StreamCodexKillExisting(k) ==
    /\ lpc[k] = "kill"
    /\ kill(existing[k])
    /\ LogIo("stream_codex", "kill", Thread("launch", k))
    /\ reg_lock' = unlock(reg_lock, Thread("launch", k))
    /\ lpc' = [lpc EXCEPT ![k] = "purge"]
    /\ UNCHANGED <<running_codex, pending_approvals, pstatus, hasStdin, lcid, monVars,
                   cpc, ccid, had_process, cinst, rpc, rrid, rapproved, rpending, rresult,
                   rinst, stdin_lock, stdin_bytes, existing, lockFrame>>

\* codex.rs 326-433: lock running_codex, insert, unlock; start the threads
StreamCodexLockInsert(k) ==
    /\ reg_lock = Free
    /\ StreamCodexInsert(k)

\* codex.rs 393-402: lock running_codex, get_mut the conversation's entry; with
\* no entry the monitor breaks, which drops the guard
MonitorLockGet(k) ==
    /\ monpc[k] = "poll"
    /\ reg_lock = Free
    /\ IF running_codex[lcid[k]] = NoProc
          THEN /\ monpc' = [monpc EXCEPT ![k] = "done"]
               /\ UNCHANGED reg_lock
          ELSE /\ monpc' = [monpc EXCEPT ![k] = "try_wait"]
               /\ reg_lock' = Thread("monitor", k)
    /\ UNCHANGED <<running_codex, pending_approvals, procVars, launchVars, mon_exit_code,
                   mon_inst, cpc, ccid, had_process, cinst, rpc, rrid, rapproved, rpending,
                   rresult, rinst, stdin_lock, stdin_bytes, io_log, existing, lockFrame>>

\* codex.rs 396-408: process.child.try_wait(); an exited child is removed from
\* the registry; the end of the block drops the guard; a child still running
\* sends the monitor to sleep and poll again
MonitorTryWait(k, status) ==
    /\ monpc[k] = "try_wait"
    /\ LogIo("monitor", "try_wait", Thread("monitor", k))
    /\ reg_lock' = unlock(reg_lock, Thread("monitor", k))
    /\ LET q == running_codex[lcid[k]] IN
         IF try_wait(q) = "exited"
            THEN /\ pstatus' = [pstatus EXCEPT ![q] = status]
                 /\ mon_exit_code' = [mon_exit_code EXCEPT ![k] = ExitCode(status)]
                 /\ mon_inst' = [mon_inst EXCEPT ![k] = q]
                 /\ running_codex' = [running_codex EXCEPT ![lcid[k]] = NoProc]
                 /\ monpc' = [monpc EXCEPT ![k] = "purge"]
            ELSE /\ monpc' = [monpc EXCEPT ![k] = "poll"]
                 /\ UNCHANGED <<pstatus, mon_exit_code, mon_inst, running_codex>>
    /\ UNCHANGED <<pending_approvals, pstate, hasStdin, launchVars, cpc, ccid,
                   had_process, cinst, rpc, rrid, rapproved, rpending, rresult, rinst,
                   stdin_lock, stdin_bytes, existing, lockFrame>>

LockNext ==
    \/ \E i \in Responds, r \in Rids, approved \in BOOLEAN : RespondRemove(i, r, approved)
    \/ \E i \in Responds : RespondLockRegistry(i)
    \/ \E i \in Responds : RespondLockStdin(i)
    \/ \E i \in Responds : RespondWritePayload(i)
    \/ \E i \in Responds : RespondWriteNewline(i)
    \/ \E j \in Cancels, c \in Cids : CancelLockRemove(j, c)
    \/ \E j \in Cancels : CancelKill(j)
    \/ \E j \in Cancels : CancelPurge(j)
    \/ \E j \in Cancels : CancelEmit(j)
    \/ \E k \in Pids, c \in Cids : StreamCodexLockRemove(k, c)
    \/ \E k \in Pids : StreamCodexKillExisting(k)
    \/ \E k \in Pids, ok \in BOOLEAN : StreamCodexSpawn(k, ok)
    \/ \E k \in Pids : StreamCodexLockInsert(k)
    \/ \E k \in Pids : MonitorLockGet(k)
    \/ \E k \in Pids, status \in ExitStatuses : MonitorTryWait(k, status)
    \/ \E k \in Pids : MonitorPurge(k)
    \/ \E k \in Pids : MonitorEmit(k)
    \/ \E p \in Pids : ProcExit(p)

LockSpec == LockInit /\ [][LockNext]_vars

\* ---------------------------------------------------------------- StallSpec: an agent that does not read

\* StallSpec is LockSpec with agent processes that never read their stdin:
\* what respond_to_approval writes stays in the pipe, and write_all on a full
\* pipe waits until the reader makes room or is gone.

\* the stdin pipe of instance p takes a write at once: it has room, or its
\* reader is gone and the write fails
write_returns(p) == stdin_write_ok(p) => Len(stdin_bytes[p]) < PipeCapacity

\* codex.rs 502: write_all(payload) returns
StallWritePayload(i) ==
    /\ rpc[i] = "write_payload"
    /\ write_returns(rinst[i])
    /\ RespondWritePayload(i)

\* codex.rs 505: write_all(b"\n") returns
StallWriteNewline(i) ==
    /\ rpc[i] = "write_newline"
    /\ write_returns(rinst[i])
    /\ RespondWriteNewline(i)

StallNext ==
    \/ \E i \in Responds, r \in Rids, approved \in BOOLEAN : RespondRemove(i, r, approved)
    \/ \E i \in Responds : RespondLockRegistry(i)
    \/ \E i \in Responds : RespondLockStdin(i)
    \/ \E i \in Responds : StallWritePayload(i)
    \/ \E i \in Responds : StallWriteNewline(i)
    \/ \E j \in Cancels, c \in Cids : CancelLockRemove(j, c)
    \/ \E j \in Cancels : CancelKill(j)
    \/ \E j \in Cancels : CancelPurge(j)
    \/ \E j \in Cancels : CancelEmit(j)
    \/ \E k \in Pids, c \in Cids : StreamCodexLockRemove(k, c)
    \/ \E k \in Pids : StreamCodexKillExisting(k)
    \/ \E k \in Pids, ok \in BOOLEAN : StreamCodexSpawn(k, ok)
    \/ \E k \in Pids : StreamCodexLockInsert(k)
    \/ \E k \in Pids : MonitorLockGet(k)
    \/ \E k \in Pids, status \in ExitStatuses : MonitorTryWait(k, status)
    \/ \E k \in Pids : MonitorPurge(k)
    \/ \E k \in Pids : MonitorEmit(k)
    \/ \E p \in Pids : ProcExit(p)

\* a command that was called runs on, and a monitor loops (codex.rs 387-430):
\* a step that stays possible is taken; a thread waiting in Mutex::lock gets
\* the lock if it is free again and again (fair scheduling).  No fairness for
\* the calls of commands and for the exit of a process: the user need not
\* call, the agent need not end.
StallFairness ==
    /\ \A i \in Responds :
         /\ SF_vars(RespondLockRegistry(i))
         /\ WF_vars(RespondLockStdin(i))
         /\ WF_vars(StallWritePayload(i))
         /\ WF_vars(StallWriteNewline(i))
    /\ \A j \in Cancels :
         WF_vars(CancelKill(j) \/ CancelPurge(j) \/ CancelEmit(j))
    /\ \A k \in Pids :
         /\ WF_vars(StreamCodexKillExisting(k) \/ (\E ok \in BOOLEAN : StreamCodexSpawn(k, ok)))
         /\ SF_vars(StreamCodexLockInsert(k))
         /\ SF_vars(MonitorLockGet(k))
         /\ WF_vars((\E status \in ExitStatuses : MonitorTryWait(k, status))
                    \/ MonitorPurge(k) \/ MonitorEmit(k))

StallSpec == LockInit /\ [][StallNext]_vars /\ StallFairness

\* ---------------------------------------------------------------- PtySpec: shell sessions

\* PtySpec is shell.rs: pty_create with the three threads it starts (stdout
\* reader, stderr reader, exit monitor), pty_write, pty_kill and pty_list over
\* AppState.pty_terminals.  Every Mutex critical section is one step.

DigitChar == <<"0", "1", "2", "3", "4", "5", "6", "7", "8", "9">>

\* a number as format!("{}") prints it
RECURSIVE Digits(_)
Digits(n) ==
    IF n < 10 THEN <<DigitChar[n + 1]>>
    ELSE Digits(n \div 10) \o <<DigitChar[(n % 10) + 1]>>

\* generate_id that leaves the sequence number out
generate_id_NoSeq(prefix, millis, seq) == <<prefix, "_">> \o Digits(millis)

\* utils.rs 16-24: format!("{}_{}_{}", prefix, millis, seq)
generate_id(prefix, millis, seq) ==
    <<prefix, "_">> \o Digits(millis) \o <<"_">> \o Digits(seq)

\* HashMap::get(&id).cloned()
pty_get(map, id) ==
    IF \E e \in map : e.id = id THEN (CHOOSE e \in map : e.id = id).child ELSE NoChild

\* HashMap::insert(id, child): an entry under the same key is replaced
pty_insert(map, id, child) == {e \in map : e.id # id} \cup {[id |-> id, child |-> child]}

\* HashMap::remove(&id)
pty_remove(map, id) == {e \in map : e.id # id}

\* shell.rs 253-262: the keys of pty_terminals
pty_list == {e.id : e \in pty_terminals}

\* window.emit(name, payload).  The emitted events are recorded per session,
\* in the order of emission (session: the session whose thread emitted it)
PtyEmit(name, payload, by, session) ==
    pty_events' = [pty_events EXCEPT ![session] =
                      Append(@, [name |-> name, payload |-> payload, by |-> by])]

\* the pty commands called and the chunks written so far
PtyOpsStarted ==
    Cardinality({s \in PtyCalls : pty_pc[s] # "idle"})
    + Cardinality({w \in PtyWrites : pw_pc[w] # "idle"})
    + Cardinality({q \in PtyKills : pk_pc[q] # "idle"})
    + pty_nchunks

\* the ids pty_create has generated so far, and one it never generated
KnownIds == {pty_id[s] : s \in {c \in PtyCalls : pty_pc[c] # "idle"}} \cup {UnknownId}

\* shell.rs 105-124: generate the id (COUNTER.fetch_add), spawn the shell with
\* three pipes; an Err of spawn returns from the command
PtyCreateSpawn(s, millis, ok) ==
    /\ pty_pc[s] = "idle"
    /\ IF s = 1 THEN TRUE ELSE pty_pc[s - 1] # "idle"
    /\ PtyOpsStarted < MaxPtyOps
    /\ pty_id' = [pty_id EXCEPT ![s] = generate_id("pty", millis, COUNTER)]
    /\ COUNTER' = COUNTER + 1
    /\ IF ok
          THEN /\ pty_state' = [pty_state EXCEPT ![s] = "alive"]
               /\ pty_pc' = [pty_pc EXCEPT ![s] = "insert"]
               /\ UNCHANGED pty_ret
          ELSE /\ pty_pc' = [pty_pc EXCEPT ![s] = "failed"]
               /\ pty_ret' = [pty_ret EXCEPT ![s] = [ok |-> FALSE, id |-> None]]
               /\ UNCHANGED pty_state
    /\ UNCHANGED <<codexVars, deltaVars, approvalVars, readerVars, lockVars, pty_terminals,
                   pty_stdin, pty_outbuf, pty_errbuf, pty_nchunks, pty_monpc, pty_monref,
                   pty_exit_code, pty_events, pw_pc, pw_id, pw_data, pw_ref, pw_result,
                   pk_pc, pk_id, pk_ref, pk_result>>

\* shell.rs 126-220: lock pty_terminals, insert; start the two readers and the
\* monitor; return Ok({id, shell})
PtyCreateInsert(s) ==
    /\ pty_pc[s] = "insert"
    /\ pty_terminals' = pty_insert(pty_terminals, pty_id[s], s)
    /\ pty_monpc' = [pty_monpc EXCEPT ![s] = "poll"]
    /\ pty_pc' = [pty_pc EXCEPT ![s] = "done"]
    /\ pty_ret' = [pty_ret EXCEPT ![s] = [ok |-> TRUE, id |-> pty_id[s]]]
    /\ UNCHANGED <<codexVars, deltaVars, approvalVars, readerVars, lockVars, COUNTER, pty_id,
                   pty_state, pty_stdin, pty_outbuf, pty_errbuf, pty_nchunks, pty_monref,
                   pty_exit_code, pty_events, pw_pc, pw_id, pw_data, pw_ref, pw_result,
                   pk_pc, pk_id, pk_ref, pk_result>>

\* the shell writes a chunk to its stdout or its stderr pipe (what it says is
\* drawn when it is read: nothing looks at it before)
PtyShellWrite(s, stream) ==
    /\ pty_state[s] = "alive"
    /\ pty_nchunks < MaxChunks
    /\ PtyOpsStarted < MaxPtyOps
    /\ pty_nchunks' = pty_nchunks + 1
    /\ IF stream = "stdout"
          THEN pty_outbuf' = [pty_outbuf EXCEPT ![s] = @ + 1] /\ UNCHANGED pty_errbuf
          ELSE pty_errbuf' = [pty_errbuf EXCEPT ![s] = @ + 1] /\ UNCHANGED pty_outbuf
    /\ UNCHANGED <<codexVars, deltaVars, approvalVars, readerVars, lockVars, COUNTER,
                   pty_terminals, pty_pc, pty_id, pty_ret, pty_state, pty_stdin, pty_monpc,
                   pty_monref, pty_exit_code, pty_events, pw_pc, pw_id, pw_data, pw_ref,
                   pw_result, pk_pc, pk_id, pk_ref, pk_result>>

\* the shell ends by itself
PtyShellExit(s) ==
    /\ pty_state[s] = "alive"
    /\ pty_state' = [pty_state EXCEPT ![s] = "exited"]
    /\ UNCHANGED <<codexVars, deltaVars, approvalVars, readerVars, lockVars, COUNTER,
                   pty_terminals, pty_pc, pty_id, pty_ret, pty_stdin, pty_outbuf, pty_errbuf,
                   pty_nchunks, pty_monpc, pty_monref, pty_exit_code, pty_events, pw_pc,
                   pw_id, pw_data, pw_ref, pw_result, pk_pc, pk_id, pk_ref, pk_result>>

\* shell.rs 133-152: the stdout reader reads a chunk and emits pty-data with
\* the id and the data.  (Ok(0) or Err ends the loop: no step of the model.)
PtyOutRead(s, data) ==
    /\ pty_pc[s] = "done"
    /\ pty_outbuf[s] > 0
    /\ pty_outbuf' = [pty_outbuf EXCEPT ![s] = @ - 1]
    /\ PtyEmit("pty-data", [id |-> pty_id[s], data |-> data], "stdout", s)
    /\ UNCHANGED <<codexVars, deltaVars, approvalVars, readerVars, lockVars, COUNTER,
                   pty_terminals, pty_pc, pty_id, pty_ret, pty_state, pty_stdin, pty_errbuf,
                   pty_nchunks, pty_monpc, pty_monref, pty_exit_code, pw_pc, pw_id, pw_data,
                   pw_ref, pw_result, pk_pc, pk_id, pk_ref, pk_result>>

\* shell.rs 154-173: the stderr reader, the same loop on the other pipe
PtyErrRead(s, data) ==
    /\ pty_pc[s] = "done"
    /\ pty_errbuf[s] > 0
    /\ pty_errbuf' = [pty_errbuf EXCEPT ![s] = @ - 1]
    /\ PtyEmit("pty-data", [id |-> pty_id[s], data |-> data], "stderr", s)
    /\ UNCHANGED <<codexVars, deltaVars, approvalVars, readerVars, lockVars, COUNTER,
                   pty_terminals, pty_pc, pty_id, pty_ret, pty_state, pty_stdin, pty_outbuf,
                   pty_nchunks, pty_monpc, pty_monref, pty_exit_code, pw_pc, pw_id, pw_data,
                   pw_ref, pw_result, pk_pc, pk_id, pk_ref, pk_result>>

\* shell.rs 181-200: lock pty_terminals, get(&monitor_id).cloned(); None breaks
PtyMonitorGet(s) ==
    /\ pty_monpc[s] = "poll"
    /\ pty_monref' = [pty_monref EXCEPT ![s] = pty_get(pty_terminals, pty_id[s])]
    /\ pty_monpc' = [pty_monpc EXCEPT ![s] =
                       IF pty_get(pty_terminals, pty_id[s]) = NoChild THEN "done"
                       ELSE "try_wait"]
    /\ UNCHANGED <<codexVars, deltaVars, approvalVars, readerVars, lockVars, COUNTER,
                   pty_terminals, pty_pc, pty_id, pty_ret, pty_state, pty_stdin, pty_outbuf,
                   pty_errbuf, pty_nchunks, pty_exit_code, pty_events, pw_pc, pw_id, pw_data,
                   pw_ref, pw_result, pk_pc, pk_id, pk_ref, pk_result>>

\* the monitor that emits pty-exit before it removes the session
PtyMonitorTryWait_EmitFirst(s, status) ==
    /\ pty_monpc[s] = "try_wait"
    /\ IF pty_state[pty_monref[s]] = "alive"
          THEN /\ pty_monpc' = [pty_monpc EXCEPT ![s] = "poll"]
               /\ UNCHANGED <<pty_exit_code, pty_events>>
          ELSE /\ pty_state[pty_monref[s]] = "killed" => status = None
               /\ pty_exit_code' = [pty_exit_code EXCEPT ![s] = Some(unwrap_or(status, -1))]
               /\ PtyEmit("pty-exit", [id |-> pty_id[s], exitCode |-> unwrap_or(status, -1)],
                          "monitor", s)
               /\ pty_monpc' = [pty_monpc EXCEPT ![s] = "remove_after"]
    /\ UNCHANGED <<codexVars, deltaVars, approvalVars, readerVars, lockVars, COUNTER,
                   pty_terminals, pty_pc, pty_id, pty_ret, pty_state, pty_stdin, pty_outbuf,
                   pty_errbuf, pty_nchunks, pty_monref, pw_pc, pw_id, pw_data,
                   pw_ref, pw_result, pk_pc, pk_id, pk_ref, pk_result>>

\* shell.rs 190-196: lock the child, try_wait; an exit gives the exit code
\* (-1 without one: a signal ended the shell); a shell still running sends the
\* monitor to sleep (120 ms) and poll again
PtyMonitorTryWait(s, status) ==
    /\ pty_monpc[s] = "try_wait"
    /\ IF pty_state[pty_monref[s]] = "alive"
          THEN /\ pty_monpc' = [pty_monpc EXCEPT ![s] = "poll"]
               /\ UNCHANGED pty_exit_code
          ELSE /\ pty_state[pty_monref[s]] = "killed" => status = None
               /\ pty_exit_code' = [pty_exit_code EXCEPT ![s] = Some(unwrap_or(status, -1))]
               /\ pty_monpc' = [pty_monpc EXCEPT ![s] = "remove"]
    /\ UNCHANGED <<codexVars, deltaVars, approvalVars, readerVars, lockVars, COUNTER,
                   pty_terminals, pty_pc, pty_id, pty_ret, pty_state, pty_stdin, pty_outbuf,
                   pty_errbuf, pty_nchunks, pty_monref, pty_events, pw_pc, pw_id, pw_data,
                   pw_ref, pw_result, pk_pc, pk_id, pk_ref, pk_result>>

\* shell.rs 203-205: lock pty_terminals, remove(&monitor_id)
PtyMonitorRemove(s) ==
    /\ pty_monpc[s] \in {"remove", "remove_after"}
    /\ pty_terminals' = pty_remove(pty_terminals, pty_id[s])
    /\ pty_monpc' = [pty_monpc EXCEPT ![s] = IF @ = "remove" THEN "emit" ELSE "done"]
    /\ UNCHANGED <<codexVars, deltaVars, approvalVars, readerVars, lockVars, COUNTER,
                   pty_pc, pty_id, pty_ret, pty_state, pty_stdin, pty_outbuf, pty_errbuf,
                   pty_nchunks, pty_monref, pty_exit_code, pty_events, pw_pc, pw_id, pw_data,
                   pw_ref, pw_result, pk_pc, pk_id, pk_ref, pk_result>>

\* shell.rs 206-210: emit pty-exit with the id and the exit code; break
PtyMonitorEmit(s) ==
    /\ pty_monpc[s] = "emit"
    /\ PtyEmit("pty-exit", [id |-> pty_id[s], exitCode |-> pty_exit_code[s][1]],
               "monitor", s)
    /\ pty_monpc' = [pty_monpc EXCEPT ![s] = "done"]
    /\ UNCHANGED <<codexVars, deltaVars, approvalVars, readerVars, lockVars, COUNTER,
                   pty_terminals, pty_pc, pty_id, pty_ret, pty_state, pty_stdin, pty_outbuf,
                   pty_errbuf, pty_nchunks, pty_monref, pty_exit_code, pw_pc, pw_id, pw_data,
                   pw_ref, pw_result, pk_pc, pk_id, pk_ref, pk_result>>

\* shell.rs 225-226, 236: lock pty_terminals, get(&id).cloned(); None returns
\* "Terminal not found"
PtyWriteGet(w, id, data) ==
    /\ pw_pc[w] = "idle"
    /\ IF w = 1 THEN TRUE ELSE pw_pc[w - 1] # "idle"
    /\ PtyOpsStarted < MaxPtyOps
    /\ pw_id' = [pw_id EXCEPT ![w] = id]
    /\ pw_data' = [pw_data EXCEPT ![w] = data]
    /\ pw_ref' = [pw_ref EXCEPT ![w] = pty_get(pty_terminals, id)]
    /\ IF pty_get(pty_terminals, id) = NoChild
          THEN /\ pw_result' = [pw_result EXCEPT ![w] = "Terminal not found"]
               /\ pw_pc' = [pw_pc EXCEPT ![w] = "done"]
          ELSE /\ pw_pc' = [pw_pc EXCEPT ![w] = "write"]
               /\ UNCHANGED pw_result
    /\ UNCHANGED <<codexVars, deltaVars, approvalVars, readerVars, lockVars, COUNTER,
                   pty_terminals, pty_pc, pty_id, pty_ret, pty_state, pty_stdin, pty_outbuf,
                   pty_errbuf, pty_nchunks, pty_monpc, pty_monref, pty_exit_code, pty_events,
                   pk_pc, pk_id, pk_ref, pk_result>>

\* pty_write that writes to the session registered first
PtyWriteData_First(w) ==
    /\ pw_pc[w] = "write"
    /\ IF pty_state[1] = "alive"
          THEN /\ pty_stdin' = [pty_stdin EXCEPT ![1] =
                                  Append(@, [data |-> pw_data[w], call |-> w])]
               /\ pw_result' = [pw_result EXCEPT ![w] = "success"]
          ELSE /\ pw_result' = [pw_result EXCEPT ![w] = "Failed to write to terminal"]
               /\ UNCHANGED pty_stdin
    /\ pw_pc' = [pw_pc EXCEPT ![w] = "done"]
    /\ UNCHANGED <<codexVars, deltaVars, approvalVars, readerVars, lockVars, COUNTER,
                   pty_terminals, pty_pc, pty_id, pty_ret, pty_state, pty_outbuf, pty_errbuf,
                   pty_nchunks, pty_monpc, pty_monref, pty_exit_code, pty_events, pw_id,
                   pw_data, pw_ref, pk_pc, pk_id, pk_ref, pk_result>>

\* shell.rs 227-234: lock the child, stdin.write_all(data.as_bytes()): the
\* write succeeds while the shell holds the read end of the pipe and fails
\* (broken pipe) once it is gone
PtyWriteData(w) ==
    /\ pw_pc[w] = "write"
    /\ IF pty_state[pw_ref[w]] = "alive"
          THEN /\ pty_stdin' = [pty_stdin EXCEPT ![pw_ref[w]] =
                                  Append(@, [data |-> pw_data[w], call |-> w])]
               /\ pw_result' = [pw_result EXCEPT ![w] = "success"]
          ELSE /\ pw_result' = [pw_result EXCEPT ![w] = "Failed to write to terminal"]
               /\ UNCHANGED pty_stdin
    /\ pw_pc' = [pw_pc EXCEPT ![w] = "done"]
    /\ UNCHANGED <<codexVars, deltaVars, approvalVars, readerVars, lockVars, COUNTER,
                   pty_terminals, pty_pc, pty_id, pty_ret, pty_state, pty_outbuf, pty_errbuf,
                   pty_nchunks, pty_monpc, pty_monref, pty_exit_code, pty_events, pw_id,
                   pw_data, pw_ref, pk_pc, pk_id, pk_ref, pk_result>>

\* pty_kill that looks the session up and leaves it registered
PtyKillRemove_KeepEntry(q, id) ==
    /\ pk_pc[q] = "idle"
    /\ IF q = 1 THEN TRUE ELSE pk_pc[q - 1] # "idle"
    /\ PtyOpsStarted < MaxPtyOps
    /\ pk_id' = [pk_id EXCEPT ![q] = id]
    /\ pk_ref' = [pk_ref EXCEPT ![q] = pty_get(pty_terminals, id)]
    /\ IF pty_get(pty_terminals, id) = NoChild
          THEN /\ pk_result' = [pk_result EXCEPT ![q] = "Terminal not found"]
               /\ pk_pc' = [pk_pc EXCEPT ![q] = "done"]
          ELSE /\ pk_pc' = [pk_pc EXCEPT ![q] = "kill"]
               /\ UNCHANGED pk_result
    /\ UNCHANGED <<codexVars, deltaVars, approvalVars, readerVars, lockVars, COUNTER,
                   pty_terminals, pty_pc, pty_id, pty_ret, pty_state, pty_stdin, pty_outbuf,
                   pty_errbuf, pty_nchunks, pty_monpc, pty_monref, pty_exit_code, pty_events,
                   pw_pc, pw_id, pw_data, pw_ref, pw_result>>

\* shell.rs 241-242, 250: lock pty_terminals, remove(&id); None returns
\* "Terminal not found"
PtyKillRemove(q, id) ==
    /\ pk_pc[q] = "idle"
    /\ IF q = 1 THEN TRUE ELSE pk_pc[q - 1] # "idle"
    /\ PtyOpsStarted < MaxPtyOps
    /\ pk_id' = [pk_id EXCEPT ![q] = id]
    /\ pk_ref' = [pk_ref EXCEPT ![q] = pty_get(pty_terminals, id)]
    /\ pty_terminals' = pty_remove(pty_terminals, id)
    /\ IF pty_get(pty_terminals, id) = NoChild
          THEN /\ pk_result' = [pk_result EXCEPT ![q] = "Terminal not found"]
               /\ pk_pc' = [pk_pc EXCEPT ![q] = "done"]
          ELSE /\ pk_pc' = [pk_pc EXCEPT ![q] = "kill"]
               /\ UNCHANGED pk_result
    /\ UNCHANGED <<codexVars, deltaVars, approvalVars, readerVars, lockVars, COUNTER,
                   pty_pc, pty_id, pty_ret, pty_state, pty_stdin, pty_outbuf, pty_errbuf,
                   pty_nchunks, pty_monpc, pty_monref, pty_exit_code, pty_events, pw_pc,
                   pw_id, pw_data, pw_ref, pw_result>>

\* a monitor's try_wait has taken the exit status of child c
Reaped(c) ==
    \E s \in PtyCalls : pty_monref[s] = c /\ pty_exit_code[s] # None

\* shell.rs 243-248: lock the child, kill(): SIGKILL to a running shell; Ok
\* for one that has exited and was not waited for; for one a try_wait has
\* reaped, Ok or an error, as the standard library in use has it
PtyKillChild(q, ok) ==
    /\ pk_pc[q] = "kill"
    /\ ~Reaped(pk_ref[q]) => ok
    /\ pty_state' = [pty_state EXCEPT ![pk_ref[q]] = IF @ = "alive" THEN "killed" ELSE @]
    /\ pk_result' = [pk_result EXCEPT ![q] =
                       IF ok THEN "success" ELSE "Failed to stop terminal"]
    /\ pk_pc' = [pk_pc EXCEPT ![q] = "done"]
    /\ UNCHANGED <<codexVars, deltaVars, approvalVars, readerVars, lockVars, COUNTER,
                   pty_terminals, pty_pc, pty_id, pty_ret, pty_stdin, pty_outbuf, pty_errbuf,
                   pty_nchunks, pty_monpc, pty_monref, pty_exit_code, pty_events, pw_pc,
                   pw_id, pw_data, pw_ref, pw_result, pk_id, pk_ref>>

PtyNext ==
    \/ \E s \in PtyCalls, millis \in Millis, ok \in BOOLEAN : PtyCreateSpawn(s, millis, ok)
    \/ \E s \in PtyCalls : PtyCreateInsert(s)
    \/ \E s \in PtyCalls, stream \in {"stdout", "stderr"} : PtyShellWrite(s, stream)
    \/ \E s \in PtyCalls : PtyShellExit(s)
    \/ \E s \in PtyCalls, data \in PtyData : PtyOutRead(s, data)
    \/ \E s \in PtyCalls, data \in PtyData : PtyErrRead(s, data)
    \/ \E s \in PtyCalls : PtyMonitorGet(s)
    \/ \E s \in PtyCalls, status \in ExitStatuses : PtyMonitorTryWait(s, status)
    \/ \E s \in PtyCalls : PtyMonitorRemove(s)
    \/ \E s \in PtyCalls : PtyMonitorEmit(s)
    \/ \E w \in PtyWrites, id \in KnownIds, data \in PtyData : PtyWriteGet(w, id, data)
    \/ \E w \in PtyWrites : PtyWriteData(w)
    \/ \E q \in PtyKills, id \in KnownIds : PtyKillRemove(q, id)
    \/ \E q \in PtyKills, ok \in BOOLEAN : PtyKillChild(q, ok)

PtySpec == Init /\ [][PtyNext]_vars

\* ---------------------------------------------------------------- MonitorSpec: the monitor's end

\* MonitorSpec follows the monitor threads to their end.  It starts where
\* conversation A's first launch has returned and its stdout reader has
\* registered one approval request of A; from there the commands that add and
\* remove registry entries are called, and the processes end.

MonitorInit ==
    /\ LaunchedWith([r \in Rids |-> IF r = "r1" THEN "A" ELSE NoCid])
    /\ DeltaInit
    /\ ApprovalIdle
    /\ ReaderIdle
    /\ LockIdle
    /\ PtyIdle

MonitorStep(k) ==
    \/ MonitorBreak(k)
    \/ \E status \in ExitStatuses : MonitorPoll(k, status)
    \/ MonitorPurge(k)
    \/ MonitorEmit(k)

MonitorNext ==
    \/ \E k \in Pids, c \in Cids : StreamCodexKill(k, c)
    \/ \E k \in Pids, ok \in BOOLEAN : StreamCodexSpawn(k, ok)
    \/ \E k \in Pids : StreamCodexInsert(k)
    \/ \E p \in Pids : ProcExit(p)
    \/ \E k \in Pids : MonitorBreak(k)
    \/ \E k \in Pids, status \in ExitStatuses : MonitorPoll(k, status)
    \/ \E k \in Pids : MonitorPurge(k)
    \/ \E k \in Pids : MonitorEmit(k)
    \/ \E j \in Cancels, c \in Cids : CancelRemove(j, c)
    \/ \E j \in Cancels : CancelPurge(j)
    \/ \E j \in Cancels : CancelEmit(j)

\* The monitor thread is a loop of lock, look, unlock, sleep 100 ms (codex.rs
\* 387-430): the scheduler runs it again and again, and a thread waiting for a
\* Mutex gets it once the holders have unlocked, so a step of the monitor that
\* stays possible is eventually taken.
MonitorSpec == MonitorInit /\ [][MonitorNext]_vars /\ \A k \in Pids : WF_vars(MonitorStep(k))

\* ---------------------------------------------------------------- properties

\* the terminal events of a process instance: the monitor's codex-stream-end /
\* codex-stream-error and cancel_prompt's cancelled codex-stream-end
IsTerminal(e) ==
    /\ e.name \in {"codex-stream-end", "codex-stream-error"}
    /\ e.by \in {"monitor", "cancel"}

Terminals(p) == {n \in DOMAIN events[p] : IsTerminal(events[p][n])}

C2_AtMostOneTerminalEvent ==
    /\ \A p \in Pids : Cardinality(Terminals(p)) <= 1
    /\ \A k \in Pids :
          (\E p \in Pids : \E n \in DOMAIN events[p] :
               events[p][n].by = "monitor" /\ events[p][n].who = k)
          => monpc[k] = "done"

\* C2 witness: the monitor left over from an earlier launch of the conversation
\* emitted the terminal event of the instance that replaced its own.
C2_Witness ==
    \E k1, k2 \in Pids :
        /\ k1 # k2 /\ lcid[k1] = lcid[k2]
        /\ monpc[k1] = "done" /\ monpc[k2] = "done"
        /\ \E n \in DOMAIN events[k2] :
              /\ IsTerminal(events[k2][n])
              /\ events[k2][n].by = "monitor" /\ events[k2][n].who = k1

\* a thread has removed the process of conversation c from the registry and
\* has its purge of pending_approvals still to do, or a stream_codex for c is
\* between its removal of the old process and its insert of the new one
CleanupDue(c) ==
    \/ \E k \in Pids : monpc[k] = "purge" /\ lcid[k] = c
    \/ \E j \in Cancels : cpc[j] = "purge" /\ ccid[j] = c
    \/ \E k \in Pids : lpc[k] \in {"purge", "insert"} /\ lcid[k] = c

\* C3: every pending approval names a conversation with a registered process,
\* unless the thread that removed the process still has its purge (or its
\* insert of the replacement) to do: the stdout reader registers no approval
\* for a conversation whose process was removed and whose approvals were purged.
C3_PendingHasProcess ==
    \A r \in Rids :
        pending_approvals[r] # NoCid
        => (running_codex[pending_approvals[r]] # NoProc \/ CleanupDue(pending_approvals[r]))

\* C4 as claimed: respond_to_approval returns success exactly when the request
\* was pending, its conversation's process is registered and has a stdin handle.
C4_SuccessIffRegistered ==
    \A i \in Responds :
        rpc[i] = "done"
        => (rresult[i] = "success"
            <=> (rpending[i] # NoCid /\ rinst[i] # NoProc /\ hasStdin[rinst[i]]))

\* the decision line of call i is on the stdin of the process it looked up
WroteLine(i) ==
    /\ rinst[i] # NoProc
    /\ \E n \in DOMAIN stdin_lines[rinst[i]] :
          stdin_lines[rinst[i]][n] =
              [request_id |-> rrid[i], approved |-> rapproved[i], call |-> i]

\* C4 amended: respond_to_approval returns success exactly when the request was
\* pending, its conversation's process is registered and has a stdin handle,
\* and the write of the decision line to that stdin succeeded.
C4_SuccessIffWritten ==
    \A i \in Responds :
        rpc[i] = "done"
        => (rresult[i] = "success"
            <=> (rpending[i] # NoCid /\ rinst[i] # NoProc /\ hasStdin[rinst[i]]
                 /\ WroteLine(i)))

\* C4 witness: a response that succeeded
C4_Witness ==
    \E i \in Responds : rpc[i] = "done" /\ rresult[i] = "success" /\ WroteLine(i)

\* C5: a respond_to_approval for a request id that is not pending returns
\* 'Approval request not found' at once, writes to no stdin and leaves
\* running_codex and pending_approvals as they were.
C5_UnknownRequestNoEffect ==
    [][\A i \in Responds :
          (rpc[i] = "idle" /\ rpc'[i] # "idle" /\ pending_approvals[rrid'[i]] = NoCid)
          => /\ rpc'[i] = "done"
             /\ rresult'[i] = "Approval request not found"
             /\ stdin_lines' = stdin_lines
             /\ running_codex' = running_codex
             /\ pending_approvals' = pending_approvals]_vars

\* C5 witness: a request id was not found while another approval was pending
\* for a conversation whose process is registered
C5_Witness ==
    \E i \in Responds :
        /\ rpc[i] = "done" /\ rresult[i] = "Approval request not found"
        /\ \E r \in Rids : /\ pending_approvals[r] # NoCid
                           /\ running_codex[pending_approvals[r]] # NoProc

\* C6 as claimed: when request r was pending for a conversation whose process
\* was then removed by cancel_prompt or by the monitor before the response was
\* called, respond_to_approval returns 'Conversation process not running'.
C6_KilledYieldsNotRunning ==
    \A i \in Responds :
        (rpc[i] = "done" /\ rfate[i] \in {"orphaned", "purged"})
        => rresult[i] = "Conversation process not running"

\* C6 amended: when request r was pending for a conversation whose process was
\* then removed by cancel_prompt or by the monitor, and that thread's purge has
\* run (and r was not registered again) before the response is called,
\* respond_to_approval returns 'Approval request not found'.
C6_PurgedYieldsNotFound ==
    \A i \in Responds :
        (rpc[i] = "done" /\ rfate[i] = "purged")
        => rresult[i] = "Approval request not found"

\* C6 witness: a response to a request whose conversation was killed and purged
C6_Witness ==
    \E i \in Responds : rpc[i] = "done" /\ rfate[i] = "purged"

\* the step is the purge of conversation c by a monitor, a cancel_prompt or a
\* stream_codex
PurgeStep(c) ==
    \/ \E k \in Pids : monpc[k] = "purge" /\ monpc'[k] # "purge" /\ lcid[k] = c
    \/ \E j \in Cancels : cpc[j] = "purge" /\ cpc'[j] # "purge" /\ ccid[j] = c
    \/ \E k \in Pids : lpc[k] = "purge" /\ lpc'[k] # "purge" /\ lcid[k] = c

\* C7: every purge of conversation c removes all the approvals pending for c
\* at that instant and leaves those of every other conversation as they were.
C7_PurgeExactlyOwn ==
    [][\A c \in Cids :
          PurgeStep(c)
          => \A r \in Rids :
                pending_approvals'[r] =
                    IF pending_approvals[r] = c THEN NoCid ELSE pending_approvals[r]]_vars

\* C7 witness: a monitor's purge removed an approval of its conversation while
\* an approval of another conversation stays pending
C7_Witness ==
    \E k \in Pids : \E r1, r2 \in Rids :
        /\ monpc[k] \in {"emit", "done"} /\ mon_inst[k] # NoProc
        /\ fate[r1] = "purged" /\ pending_approvals[r1] = NoCid
        /\ pending_approvals[r2] \notin {NoCid, lcid[k]}

\* C8 as claimed: a cancel_prompt(c) that follows the only stream_codex(c),
\* which returned Ok, with no other cancel of c before it, finds a process
\* registered under c.
C8_CancelFindsProcess ==
    \A j \in Cancels :
        (cpc[j] # "idle" /\ cafter[j] # NoProc) => had_process[j]

\* C8 amended: such a cancel_prompt(c) finds the launched process registered
\* under c (and removes it), unless that process has exited and a monitor has
\* detected the exit and removed it from the registry before the cancel.
C8_CancelFindsProcessUnlessReaped ==
    \A j \in Cancels :
        (cpc[j] # "idle" /\ cafter[j] # NoProc)
        => \/ had_process[j] /\ cinst[j] = cafter[j]
           \/ ~had_process[j] /\ \E k \in Pids : mon_inst[k] = cafter[j]

\* C8 witness: the cancel after a successful launch removed the launched
\* process and emitted the cancelled codex-stream-end
C8_Witness ==
    \E j \in Cancels :
        /\ cpc[j] = "done" /\ cafter[j] # NoProc /\ had_process[j]
        /\ \E n \in DOMAIN events[cafter[j]] :
              events[cafter[j]][n].by = "cancel" /\ events[cafter[j]][n].who = j

\* C9: for an instance whose exit the monitor detected, no stdout- or
\* stderr-derived event of the instance follows its terminal event.
C9_TerminalEventIsLast ==
    \A p \in Pids : \A m, n \in DOMAIN events[p] :
        (m < n /\ IsTerminal(events[p][m]) /\ events[p][m].by = "monitor")
        => events[p][n].by \notin {"stdout", "stderr"}

\* the terminal event the monitor of launch k owes the exited instance inst
ExpectedTerminal(k, inst) ==
    IF pstatus[inst] = Some(0)
       THEN [name |-> "codex-stream-end", cid |-> lcid[k], by |-> "monitor", who |-> k,
             data |-> 0]
       ELSE [name |-> "codex-stream-error", cid |-> lcid[k], by |-> "monitor", who |-> k,
             data |-> IF pstatus[inst] = None THEN -1 ELSE pstatus[inst][1]]

\* C10: a monitor poll that finds the registered process exited removes it
\* from the registry; the next step purges the conversation's approvals; the
\* next emits one terminal event, codex-stream-end for exit code 0 and
\* codex-stream-error with the code otherwise (-1 for no code), with the
\* exited process not in the registry; a monitor emits nothing in any other step.
C10_MonitorOnExit ==
    [][\A k \in Pids :
          /\ (monpc[k] = "poll" /\ monpc'[k] = "purge")
             => /\ running_codex[lcid[k]] # NoProc
                /\ pstate[running_codex[lcid[k]]] # "alive"
                /\ mon_inst'[k] = running_codex[lcid[k]]
                /\ running_codex'[lcid[k]] = NoProc
                /\ pending_approvals' = pending_approvals
                /\ events' = events
          /\ (monpc[k] = "poll" /\ monpc'[k] # "poll")
             => (monpc'[k] = "purge" \/ (monpc'[k] = "done" /\ events' = events))
          /\ (monpc[k] = "purge" /\ monpc'[k] # "purge")
             => /\ monpc'[k] = "emit"
                /\ \A r \in Rids : pending_approvals'[r] # lcid[k]
                /\ \A c \in Cids : running_codex[c] # mon_inst[k]
                /\ events' = events
          /\ (monpc[k] = "emit" /\ monpc'[k] # "emit")
             => /\ monpc'[k] = "done"
                /\ \A c \in Cids : running_codex[c] # mon_inst[k]
                /\ events' = [events EXCEPT ![mon_inst[k]] =
                                 Append(@, ExpectedTerminal(k, mon_inst[k]))]]_vars

\* C10 witness: a monitor reported an exit without a code as codex-stream-error
\* with -1
C10_Witness ==
    \E p \in Pids : \E n \in DOMAIN events[p] :
        /\ events[p][n].name = "codex-stream-error" /\ events[p][n].by = "monitor"
        /\ events[p][n].data = -1 /\ pstatus[p] = None /\ pstate[p] = "exited"

\* ---------------------------------------------------------------- properties of DeltaSpec

\* the text after the first n characters
Suffix(s, n) == SubSeq(s, n + 1, Len(s))

\* the last extract_text_delta returned the suffix of the new text after the
\* text the cache held (after "", when it held none)
DeltaIsSuffixAfterCached ==
    /\ starts_with(dcall.full_text, unwrap_or(dcall.previous, <<>>))
    /\ dcall.delta = Suffix(dcall.full_text, Len(unwrap_or(dcall.previous, <<>>)))

\* C11 as claimed: for an item id whose full texts so far each started with the
\* previous one, the deltas returned concatenate to the last full text, and the
\* last delta is the suffix of the new text after the cached text.
C11_DeltasConcatToLast ==
    \A id \in ItemIds \ {""} :
        (dhist[id].n > 0 /\ dhist[id].chain)
        => /\ dhist[id].concat = dhist[id].last
           /\ (dcall.called /\ dcall.item_id = id) => DeltaIsSuffixAfterCached

\* C11 amended: the same, for a sequence in which no item.completed comes
\* before the last text (an item.completed empties the cache entry, and the
\* next text is returned whole).
C11_DeltasConcatToLastUntilCompleted ==
    \A id \in ItemIds \ {""} :
        (dhist[id].n > 0 /\ dhist[id].chain)
        => /\ ~dhist[id].ended => dhist[id].concat = dhist[id].last
           /\ (dcall.called /\ dcall.item_id = id) => DeltaIsSuffixAfterCached

\* C11 witness: three texts of one item, each starting with the previous one,
\* the third longer than the second and delivered by item.completed
C11_Witness ==
    \E id \in ItemIds \ {""} :
        /\ dhist[id].n = 3 /\ dhist[id].chain /\ ~dhist[id].ended /\ dhist[id].term
        /\ dcall.called /\ dcall.item_id = id
        /\ dcall.previous # None /\ Len(dcall.previous[1]) = 2
        /\ Len(dcall.full_text) = 3 /\ Len(dcall.delta) = 1
        /\ dhist[id].concat = dcall.full_text

\* the last extract_text_delta was given a text that does not start with the
\* text cached for its item id
NonPrefixCall ==
    /\ dcall.called
    /\ dcall.previous # None
    /\ ~starts_with(dcall.full_text, dcall.previous[1])

\* C12 as claimed: a text that does not start with the cached one is returned
\* whole, and after a non-terminal update the cache entry is the new text.
C12_NonPrefixResets ==
    NonPrefixCall
    => /\ dcall.delta = dcall.full_text
       /\ ~dcall.is_terminal => item_text_by_id[dcall.item_id] = Some(dcall.full_text)

\* C12 amended: a non-empty text that does not start with the cached one is
\* returned whole, and after a non-terminal update the cache entry is the new
\* text (an empty text returns before the cache is read or written).
C12_NonPrefixNonEmptyResets ==
    (NonPrefixCall /\ dcall.full_text # <<>>)
    => /\ dcall.delta = dcall.full_text
       /\ ~dcall.is_terminal => item_text_by_id[dcall.item_id] = Some(dcall.full_text)

\* C12 witness: a non-terminal update with a non-empty text shorter than the
\* cached one and no prefix of it
C12_Witness ==
    /\ NonPrefixCall /\ ~dcall.is_terminal
    /\ dcall.full_text # <<>> /\ Len(dcall.full_text) < Len(dcall.previous[1])
    /\ dcall.delta = dcall.full_text
    /\ item_text_by_id[dcall.item_id] = Some(dcall.full_text)

\* C13: after an item.completed of a reasoning, agent_message or message item
\* has been processed, with any text, the cache holds no entry for its item id.
C13_NoEntryAfterCompleted ==
    (dcall.called /\ dcall.is_terminal) => item_text_by_id[dcall.item_id] = None

\* ---------------------------------------------------------------- properties of ApprovalSpec

\* the string values of the event's requestId, request_id and id, in that
\* order, that are not empty
NonEmptyRequestIds(event) ==
    SelectSeq(<<event.requestId, event.request_id, event.id>>,
              LAMBDA v : v.kind = "string" /\ v.s # <<>>)

\* the event's type or method is a string containing "approval" in any case
MentionsApproval(event) ==
    \E f \in {event.type, event.method} :
        /\ f.kind = "string"
        /\ \E n \in 0..(Len(f.s) - 8) :
               /\ f.s[n + 1] \in {"a", "A"} /\ f.s[n + 2] \in {"p", "P"}
               /\ f.s[n + 3] \in {"p", "P"} /\ f.s[n + 4] \in {"r", "R"}
               /\ f.s[n + 5] \in {"o", "O"} /\ f.s[n + 6] \in {"v", "V"}
               /\ f.s[n + 7] \in {"a", "A"} /\ f.s[n + 8] \in {"l", "L"}

\* C14: try_extract_approval_request reports an approval request exactly when
\* the type or method mentions approval and one of requestId, request_id, id is
\* a non-empty string, and the id reported is the first non-empty one in that
\* order.
C14_ApprovalIffFirstNonEmptyId ==
    aresult.called
    => IF MentionsApproval(aevent) /\ NonEmptyRequestIds(aevent) # <<>>
          THEN /\ aresult.ret # None
               /\ aresult.ret[1].request_id = NonEmptyRequestIds(aevent)[1].s
          ELSE aresult.ret = None

\* ---------------------------------------------------------------- properties of ReaderSpec

\* line n of the agent's stdout has been read by the reader
LineRead(n) ==
    /\ n \in DOMAIN sout_lines
    /\ sout_lines[n].utf8
    /\ \A m \in DOMAIN sout_pipe : sout_pipe[m].n # n

\* the events derived from line n
EventsOfLine(n) == {m \in DOMAIN sout_events : sout_events[m].line = n}

\* line n came out as one codex-stream-token event carrying its text and the
\* conversation id
ForwardedVerbatim(n) ==
    /\ Cardinality(EventsOfLine(n)) = 1
    /\ \A m \in EventsOfLine(n) :
          sout_events[m] = [name |-> "codex-stream-token", cid |-> "A",
                            data |-> sout_lines[n].text, line |-> n]

\* C15 as claimed: every line read from stdout that does not decode as JSON is
\* emitted verbatim as one codex-stream-token event tagged with the
\* conversation id.
C15_NonJsonLineForwarded ==
    \A n \in DOMAIN sout_lines :
        (LineRead(n) /\ sout_lines[n].json = "no") => ForwardedVerbatim(n)

\* C15 amended: every line read from stdout that is not blank (has a character
\* that is no whitespace) and does not decode as JSON is emitted verbatim,
\* without its line terminator, as one codex-stream-token event tagged with the
\* conversation id; a blank line yields no event.
C15_NonBlankNonJsonLineForwarded ==
    \A n \in DOMAIN sout_lines :
        (LineRead(n) /\ sout_lines[n].json = "no")
        => IF \E k \in DOMAIN sout_lines[n].text : sout_lines[n].text[k] \notin Whitespace
              THEN ForwardedVerbatim(n)
              ELSE EventsOfLine(n) = {}

\* C15 witness: a line of text with a leading blank and a CR LF terminator was
\* forwarded with the blank and without the terminator
C15_Witness ==
    \E n \in DOMAIN sout_lines :
        /\ LineRead(n) /\ sout_lines[n].json = "no"
        /\ sout_lines[n].text = <<" ", "x">> /\ sout_lines[n].eol = <<"\r", "\n">>
        /\ ForwardedVerbatim(n)

\* C16: the events derived from one process's stdout are emitted in the order
\* of its lines: every event of an earlier line comes before every event of a
\* later line.
C16_EventsInLineOrder ==
    \A m, n \in DOMAIN sout_events :
        sout_events[m].line < sout_events[n].line => m < n

\* C16 witness: three lines were in the pipe together and each yielded events,
\* the first of them two
C16_Witness ==
    /\ Len(sout_lines) = 3 /\ sout_pipe = <<>>
    /\ sout_lines[1].json = "thinking"
    /\ Cardinality(EventsOfLine(1)) = 2
    /\ EventsOfLine(2) # {} /\ EventsOfLine(3) # {}
    /\ sout_events[1].line = 1 /\ sout_events[Len(sout_events)].line = 3

\* what call i of respond_to_approval has put on the stdin of instance p
ChunksOf(i, p) == {n \in 1..Len(stdin_bytes[p]) : stdin_bytes[p][n].call = i}

\* the stdin of instance p is a sequence of whole lines: every payload is
\* directly followed by the newline of the same call, if anything follows it,
\* and every newline directly follows the payload of the same call
WholeLines(p) ==
    LET b == stdin_bytes[p] IN
      \A n \in 1..Len(b) :
        /\ (b[n].part = "payload" /\ n < Len(b)) =>
              (b[n + 1].part = "newline" /\ b[n + 1].call = b[n].call)
        /\ b[n].part = "newline" =>
              (n > 1 /\ b[n - 1].part = "payload" /\ b[n - 1].call = b[n].call)

\* C17: a successful respond_to_approval(r, approved) has written to the stdin
\* of the process of the owning conversation exactly one line, the object
\* {request_id: r, approved} followed by one newline, and nothing to any other
\* stdin; between its two writes the call holds the stdin lock; the lines of
\* concurrent calls are on stdin whole, never interleaved
C17_WholeLineUnderStdinLock ==
    /\ \A p \in Pids : WholeLines(p)
    /\ \A i \in Responds :
         /\ rpc[i] = "write_newline" => stdin_lock[rinst[i]] = Thread("respond", i)
         /\ (rpc[i] = "done" /\ rresult[i] = "success") =>
               /\ lcid[rinst[i]] = rpending[i]
               /\ \A p \in Pids \ {rinst[i]} : ChunksOf(i, p) = {}
               /\ \E n \in 1..(Len(stdin_bytes[rinst[i]]) - 1) :
                    /\ ChunksOf(i, rinst[i]) = {n, n + 1}
                    /\ stdin_bytes[rinst[i]][n] =
                         [call |-> i, part |-> "payload", request_id |-> rrid[i],
                          approved |-> rapproved[i]]
                    /\ stdin_bytes[rinst[i]][n + 1].part = "newline"

\* two calls have answered two requests of one conversation with different
\* decisions, both with success: two lines on one stdin
C17_Witness ==
    /\ \A i \in Responds : rpc[i] = "done" /\ rresult[i] = "success"
    /\ rinst[1] = rinst[2]
    /\ rrid[1] # rrid[2]
    /\ rapproved[1] # rapproved[2]
    /\ Len(stdin_bytes[rinst[1]]) = 4

\* C18: no thread does I/O on a child process (a write to its stdin, a kill, a
\* poll of its exit status) while it holds the running_codex lock
C18_NoIoUnderRegistryLock == \A e \in io_log : ~e.registry_locked

\* C19: the value cancel_prompt returns for a conversation that had a process
\* differs from the value it returns for one that had none
C19_ResultTellsWhetherProcessExisted ==
    \A j1, j2 \in Cancels :
        (cpc[j1] = "done" /\ cpc[j2] = "done" /\ had_process[j1] /\ ~had_process[j2])
        => cresult[j1] # cresult[j2]

\* C20: the four failures of respond_to_approval are four different error
\* values, and a call that has returned reports the first that applied, in
\* the order: request id not pending, no process registered for the owning
\* conversation, process without stdin handle, write to stdin failed
C20_FirstApplicableError ==
    /\ Cardinality({"Approval request not found", "Conversation process not running",
                     "Process stdin is not available", "io error"}) = 4
    /\ \A i \in Responds :
         rpc[i] = "done" =>
           rresult[i] =
             IF rpending[i] = NoCid THEN "Approval request not found"
             ELSE IF rinst[i] = NoProc THEN "Conversation process not running"
             ELSE IF ~hasStdin[rinst[i]] THEN "Process stdin is not available"
             ELSE IF ~WroteLine(i) THEN "io error"
             ELSE "success"

\* two calls have answered the same request: the first found it pending and
\* its process registered and failed to write to it, the second found the
\* request no longer pending
C20_Witness ==
    \E i1, i2 \in Responds :
        /\ rrid[i1] = rrid[i2]
        /\ rpc[i1] = "done" /\ rresult[i1] = "io error"
        /\ rpc[i2] = "done" /\ rresult[i2] = "Approval request not found"

\* a cancel_prompt call has removed instance k from the registry
CancelledInstance(k) ==
    \E j \in Cancels : cpc[j] # "idle" /\ had_process[j] /\ cinst[j] = k

\* the registry holds an entry for the conversation of launch k
EntryForConversationOf(k) == lcid[k] # NoCid /\ running_codex[lcid[k]] # NoProc

\* the monitor of launch k ends here, changing nothing else
MonitorStopsSilently(k) ==
    /\ monpc'[k] = "done"
    /\ events' = events
    /\ pending_approvals' = pending_approvals
    /\ running_codex' = running_codex

CancelledEnd(j) ==
    [name |-> "codex-stream-end", cid |-> ccid[j], by |-> "cancel", who |-> j,
     data |-> "cancelled"]

\* C27: cancel_prompt(c) removes and kills the process registered for c, if
\* there is one; it then purges the pending approvals of c, those and no
\* others, whether or not it removed a process; it then emits the cancelled
\* codex-stream-end for c if it removed a process and nothing if it did not;
\* a call that found no process kills nothing; no other step of the call
\* emits anything
C27_CancelEmitsIffRemoved ==
    [][\A j \in Cancels :
          /\ (cpc[j] = "idle" /\ cpc'[j] # "idle")
             => /\ cpc'[j] = "purge"
                /\ cinst'[j] = running_codex[ccid'[j]]
                /\ running_codex' = [running_codex EXCEPT ![ccid'[j]] = NoProc]
                /\ \A q \in Pids :
                      pstate'[q] = IF q = cinst'[j] /\ pstate[q] = "alive"
                                      THEN "killed" ELSE pstate[q]
                /\ pending_approvals' = pending_approvals
                /\ events' = events
          /\ (cpc[j] = "purge" /\ cpc'[j] # "purge")
             => /\ cpc'[j] = "emit"
                /\ \A r \in Rids :
                      pending_approvals'[r] = IF pending_approvals[r] = ccid[j]
                                                 THEN NoCid ELSE pending_approvals[r]
                /\ pstate' = pstate
                /\ events' = events
          /\ (cpc[j] = "emit" /\ cpc'[j] # "emit")
             => /\ cpc'[j] = "done"
                /\ pstate' = pstate
                /\ events' = IF cinst[j] # NoProc
                                THEN [events EXCEPT ![cinst[j]] = Append(@, CancelledEnd(j))]
                                ELSE events]_vars

\* two calls have cancelled one conversation: the first removed its process
\* and emitted the cancelled end, the second found none and emitted nothing,
\* and no approval of the conversation is pending
C27_Witness ==
    \E j1, j2 \in Cancels :
        /\ cpc[j1] = "done" /\ cpc[j2] = "done"
        /\ ccid[j1] = ccid[j2]
        /\ cinst[j1] # NoProc /\ cinst[j2] = NoProc
        /\ \E n \in DOMAIN events[cinst[j1]] : events[cinst[j1]][n] = CancelledEnd(j1)
        /\ \A q \in Pids : \A n \in DOMAIN events[q] :
              ~(events[q][n].by = "cancel" /\ events[q][n].who = j2)
        /\ \E r \in Rids : fate[r] = "purged"
        /\ \A r \in Rids : pending_approvals[r] # ccid[j1]

\* C30: the monitor of launch k reaps, and emits a terminal event about, no
\* process but the one launch k spawned
C30_MonitorActsOnOwnInstanceOnly ==
    \A k \in Pids :
        /\ mon_inst[k] \in {NoProc, k}
        /\ \A q \in Pids \ {k} : \A n \in DOMAIN events[q] :
              ~(events[q][n].by = "monitor" /\ events[q][n].who = k)

\* the pty_create calls that have returned Ok
Created == {s \in PtyCalls : pty_pc[s] = "done"}

\* C23: the ids successful pty_create calls have returned are pairwise
\* distinct; while no shell has ended and no pty_kill was called, pty_list holds
\* one id for every successful pty_create; and a pty_create call removes no
\* entry of pty_terminals, replaces none, and changes the state of no shell but
\* its own
C23_SessionsCoexist ==
    /\ [](\A s1, s2 \in Created : s1 # s2 => pty_ret[s1].id # pty_ret[s2].id)
    /\ []((/\ \A s \in PtyCalls : pty_state[s] \in {"unborn", "alive"}
           /\ \A q \in PtyKills : pk_pc[q] = "idle")
          => /\ Cardinality(pty_list) = Cardinality(Created)
             /\ \A s \in Created : pty_ret[s].ok /\ pty_ret[s].id \in pty_list)
    /\ [][\A s \in PtyCalls :
            pty_pc'[s] # pty_pc[s]
            => /\ pty_terminals \subseteq pty_terminals'
               /\ \A s2 \in PtyCalls \ {s} : pty_state'[s2] = pty_state[s2]]_vars

\* two pty_create calls that overlapped have both returned, and both sessions
\* are registered and running
C23_Witness ==
    /\ Created = PtyCalls
    /\ \A s \in PtyCalls : pty_state[s] = "alive"
    /\ Cardinality(pty_list) = MaxPty
    /\ \E s \in PtyCalls : pty_monpc[s] = "try_wait"

\* the pty-exit events emitted for session s
PtyExits(s) == {n \in DOMAIN pty_events[s] : pty_events[s][n].name = "pty-exit"}

\* pty-exit has been emitted with this id
PtyExitEmitted(id) ==
    \E s \in PtyCalls : \E n \in PtyExits(s) : pty_events[s][n].payload.id = id

\* C24: a session's monitor emits at most one pty-exit, with the session's id
\* and the exit code it took, and has then stopped; once pty-exit has been
\* emitted for an id, pty_list does not hold the id, and a pty_write called
\* with it returns "Terminal not found"
C24_SinglePtyExitAfterRemoval ==
    /\ [](\A s \in PtyCalls :
            /\ Cardinality(PtyExits(s)) <= 1
            /\ \A n \in PtyExits(s) :
                 /\ pty_events[s][n].payload =
                      [id |-> pty_id[s], exitCode |-> pty_exit_code[s][1]]
                 /\ pty_id[s] \notin pty_list
                 /\ pty_monpc[s] = "done")
    /\ [][\A w \in PtyWrites :
            (pw_pc[w] = "idle" /\ pw_pc'[w] # "idle" /\ PtyExitEmitted(pw_id'[w]))
            => (pw_pc'[w] = "done" /\ pw_result'[w] = "Terminal not found")]_vars

\* a shell has ended with exit code 1, its pty-exit has been emitted, and a
\* pty_write with its id has returned "Terminal not found"
C24_Witness ==
    \E s \in PtyCalls, w \in PtyWrites :
        /\ \E n \in PtyExits(s) : pty_events[s][n].payload.exitCode = 1
        /\ pw_pc[w] = "done"
        /\ pw_id[w] = pty_id[s]
        /\ pw_result[w] = "Terminal not found"

\* what pty_write call w has put on the stdin of shell s
Forwarded(w, s) == {n \in DOMAIN pty_stdin[s] : pty_stdin[s][n].call = w}

\* pty_write and pty_kill with an id that pty_terminals does not hold return
\* "Terminal not found" and change neither a shell, nor a stdin, nor
\* pty_terminals
UnknownIdNoEffect ==
    [][/\ \A w \in PtyWrites :
            (pw_pc[w] = "idle" /\ pw_pc'[w] # "idle" /\ pw_id'[w] \notin pty_list)
            => /\ pw_pc'[w] = "done"
               /\ pw_result'[w] = "Terminal not found"
               /\ UNCHANGED <<pty_terminals, pty_state, pty_stdin>>
       /\ \A q \in PtyKills :
            (pk_pc[q] = "idle" /\ pk_pc'[q] # "idle" /\ pk_id'[q] \notin pty_list)
            => /\ pk_pc'[q] = "done"
               /\ pk_result'[q] = "Terminal not found"
               /\ UNCHANGED <<pty_terminals, pty_state, pty_stdin>>]_vars

PtyDatas(s) == {n \in DOMAIN pty_events[s] : pty_events[s][n].name = "pty-data"}

\* C26: the payload of a pty-data event tells which reader emitted it: two
\* pty-data events with the same payload come from the same reader loop
C26_PayloadTellsOrigin ==
    \A s1, s2 \in PtyCalls : \A n1 \in PtyDatas(s1), n2 \in PtyDatas(s2) :
        pty_events[s1][n1].payload = pty_events[s2][n2].payload
        => (s1 = s2 /\ pty_events[s1][n1].by = pty_events[s2][n2].by)

\* ---------------------------------------------------------------- tool status, approval events, stream deltas

\* the mapping the three item types are said to share
UniformToolStatus(status) ==
    IF status = S_completed THEN S_done
    ELSE IF status \in {S_failed, S_declined} THEN S_error
    ELSE S_running

\* the last event parsed was an item event of a type that carries a status
ToolItemParsed ==
    /\ pret.called
    /\ pret.ret = None
    /\ pevent.has_item
    /\ pevent.type \in {Str(S_item_updated), Str(S_item_completed)}
    /\ to_ascii_lowercase(pevent.item.type)
          \in {S_command_execution, S_mcp_tool_call, S_file_change}

\* C22: for every item type that carries a status (command_execution,
\* mcp_tool_call, file_change) the codex-tool-call event carries the status
\* given by one mapping: completed gives done, failed and declined give error,
\* anything else gives running.
C22_StatusMappedUniformly ==
    ToolItemParsed =>
        \E n \in DOMAIN pemitted :
            /\ pemitted[n].name = "codex-tool-call"
            /\ pemitted[n].data = UniformToolStatus(item_status(pevent.item))

\* C28: a parse_codex_event call on an event in which an approval request is
\* detected emits exactly one codex-approval-request event and nothing else,
\* whatever the type of the event, leaves the StreamParseCache as it was and
\* returns the request; on any other event it returns None and emits no
\* codex-approval-request.
C28_ApprovalShortCircuits ==
    [][(dn' = dn + 1 /\ pret'.called) =>
          LET approval == try_extract_approval_request(pevent') IN
          IF approval # None
             THEN /\ pemitted' = <<Emitted("codex-approval-request", approval[1].request_id)>>
                  /\ item_text_by_id' = item_text_by_id
                  /\ pret'.ret = approval
             ELSE /\ pret'.ret = None
                  /\ \A n \in DOMAIN pemitted' :
                        pemitted'[n].name # "codex-approval-request"]_vars

\* an item.completed event of a message item with a text, carrying an approval
\* method and a request id, was parsed while the cache held the item's text:
\* only the approval request was emitted and the cache still holds the text
C28_Witness ==
    /\ pret.called
    /\ pret.ret # None
    /\ pevent.type = Str(S_item_completed)
    /\ pevent.item.type = S_message
    /\ pevent.item.text = <<"a", "b">>
    /\ item_text_by_id["i1"] = Some(<<"a">>)
    /\ Len(pemitted) = 1

\* C29: for a message item whose text only ever grows, the codex-stream-delta
\* texts emitted for it, joined, are its full text, whether the text came as
\* item.streaming deltas, as full texts in item.updated / item.completed, or
\* as both.
C29_DeltasJoinToFullText ==
    \A id \in ItemIds :
        (phist[id].n > 0 /\ phist[id].message /\ phist[id].grows /\ ~phist[id].ended)
            => phist[id].concat = phist[id].full

\* ---------------------------------------------------------------- approvals across relaunches

\* the stdout of instance p has produced an approval request with id r
Requested(p, r) ==
    \E n \in DOMAIN events[p] :
        events[p][n].name = "codex-approval-request" /\ events[p][n].data = r

\* instance k was registered, and a later stream_codex call for its
\* conversation has killed it and has returned Ok (no cancel_prompt was called,
\* so it was that call that killed it)
Relaunched(k) ==
    /\ pstate[k] = "killed"
    /\ \A j \in Cancels : cpc[j] = "idle"
    /\ \E k2 \in Pids : k2 > k /\ lcid[k2] = lcid[k] /\ lpc[k2] = "done"

\* C33: an approval decision is only ever written to the stdin of the process
\* instance whose stdout produced the request: after stream_codex has replaced
\* the conversation's process, a request of the old instance is never answered
\* into the stdin of the new one.
C33_DecisionGoesToRequester ==
    \A p \in Pids : \A n \in DOMAIN stdin_lines[p] :
        \A k \in Pids \ {p} :
            (Relaunched(k) /\ Requested(k, stdin_lines[p][n].request_id))
                => Requested(p, stdin_lines[p][n].request_id)

\* no respond_to_approval call was made for r
Unanswered(r) == \A i \in Responds : rpc[i] = "idle" \/ rrid[i] # r

\* nothing has purged pending_approvals since the first launch started: no
\* cancel_prompt, no second stream_codex, no monitor past its poll
NothingPurged ==
    /\ \A j \in Cancels : cpc[j] = "idle"
    /\ \A k \in Pids : k > 1 => lpc[k] = "idle"
    /\ \A k \in Pids : monpc[k] \in {"off", "poll"}

\* C34: whenever a codex-approval-request event for request id r has been
\* emitted and r has been neither answered nor purged, r is in
\* pending_approvals.
C34_EmittedRequestIsPending ==
    \A r \in Rids :
        ((\E p \in Pids : Requested(p, r)) /\ Unanswered(r) /\ NothingPurged)
            => pending_approvals[r] # NoCid

\* C35: after stream_codex(c) has returned for a relaunch of conversation c,
\* the stdout and stderr reader threads of the replaced instance emit nothing
\* more under c.
C35_ReplacedInstanceIsSilent ==
    [][\A k \in Pids :
          (Relaunched(k) /\ Len(events'[k]) > Len(events[k]))
              => events'[k][Len(events'[k])].by \notin {"stdout", "stderr"}]_vars

\* ---------------------------------------------------------------- a launch that fails to spawn

\* launch k has started none of its threads and nothing was emitted about it
NothingStarted(k) ==
    /\ outpc[k] = "off"
    /\ errpc[k] = "off"
    /\ monpc[k] = "off"
    /\ pstate[k] = "unborn"
    /\ events[k] = <<>>
    /\ \A c \in Cids : running_codex[c] # k

\* C36: when stream_codex(c) fails to spawn the agent it returns with no
\* entry for c in the registry: the process it found registered under c has
\* been removed and killed and c's pending approvals are purged, nothing of
\* that is restored, no thread of the launch is started and no event is
\* emitted, then or later.
C36_FailedLaunchLeavesNothing ==
    [][\A k \in Pids :
          /\ (lpc[k] = "purge" /\ lpc'[k] = "failed") =>
                /\ running_codex'[lcid[k]] = NoProc
                /\ existing[k] # NoProc =>
                      /\ pstate'[existing[k]] # "alive"
                      /\ \A c \in Cids : running_codex'[c] # existing[k]
                /\ \A r \in Rids : pending_approvals'[r] # lcid[k]
                /\ events' = events
          /\ lpc'[k] = "failed" => NothingStarted(k)']_vars

\* the relaunch of conversation A, whose process was registered with two
\* approvals pending, has failed to spawn
C36_Witness ==
    \E k \in Pids :
        /\ lpc[k] = "failed"
        /\ lcid[k] = "A"
        /\ existing[k] = 1
        /\ pstate[1] = "killed"
        /\ running_codex["A"] = NoProc
        /\ \A r \in Rids : pending_approvals[r] = NoCid

\* ---------------------------------------------------------------- one owner per request id

\* the stdout reader of launch k inserts the request it has read
RegisterStep(k) == outpc[k] = "register" /\ outpc'[k] = "reading"

\* C37: pending_approvals holds one owner per request id, keyed by the request
\* id alone: a registration sets the owner of its request id to the
\* registering conversation whoever owned it before (last registration wins)
\* and touches no other entry; a respond_to_approval takes the owner the map
\* holds and writes to that conversation's process only; a purge of another
\* conversation leaves the entry.
C37_LastRegistrationOwns ==
    [][/\ \A k \in Pids :
             RegisterStep(k) =>
                \A r \in Rids :
                    pending_approvals'[r] =
                        IF r = outreq[k] THEN lcid[k] ELSE pending_approvals[r]
       /\ \A i \in Responds :
             (rpc[i] = "idle" /\ rpc'[i] # "idle") =>
                rpending'[i] = pending_approvals[rrid'[i]]
       /\ \A i \in Responds :
             (rpc[i] = "lookup" /\ rpc'[i] = "done") =>
                \A p \in Pids :
                    stdin_lines'[p] # stdin_lines[p] => p = running_codex[rpending[i]]
       /\ \A c \in Cids :
             PurgeStep(c) =>
                \A r \in Rids :
                    pending_approvals[r] \notin {c, NoCid} =>
                        pending_approvals'[r] = pending_approvals[r]]_vars

\* the processes of A and of B have both reported request r1 and both readers
\* have registered it; nothing was answered or purged, so the owner B is the
\* one that registered last, over A's entry
C37_Witness ==
    /\ lcid = <<"A", "B">>
    /\ Requested(1, "r1") /\ Requested(2, "r1")
    /\ outpc = <<"reading", "reading">>
    /\ pstate = <<"alive", "alive">>
    /\ \A i \in Responds : rpc[i] = "idle"
    /\ \A j \in Cancels : cpc[j] = "idle"
    /\ pending_approvals["r1"] = "B"

\* ---------------------------------------------------------------- an approval is consumed once

\* the respond_to_approval calls for request id r that found it pending
Consumers(r) == {i \in Responds : rpc[i] # "idle" /\ rrid[i] = r /\ rpending[i] # NoCid}

\* the decision payloads for request id r that reached a stdin
PayloadsFor(r) ==
    {<<p, n>> \in Pids \X (1..(2 * MaxRespond)) :
        /\ n \in DOMAIN stdin_bytes[p]
        /\ stdin_bytes[p][n].part = "payload"
        /\ stdin_bytes[p][n].request_id = r}

\* C31: a registered approval is consumed by the first respond_to_approval
\* for its id, whatever that call returns: once a call for the id has passed
\* its first statement the id is not pending, the call that found it pending
\* is the first one made for the id, at most one call gets past 'Approval
\* request not found' and at most one decision is written.  (Each id is
\* registered once here.)
C31_ConsumedByFirstRespond ==
    /\ \A i \in Responds : rpc[i] # "idle" => pending_approvals[rrid[i]] = NoCid
    /\ \A r \in Rids :
         /\ Cardinality(Consumers(r)) <= 1
         /\ \A i \in Consumers(r) :
               \A i2 \in Responds : (rpc[i2] # "idle" /\ rrid[i2] = rrid[i]) => i <= i2
         /\ Cardinality(PayloadsFor(r)) <= 1
    /\ \A i \in Responds :
         (rpc[i] = "done" /\ rresult[i] # "Approval request not found") => rpending[i] # NoCid

\* two calls for r1: the first found it pending and returned 'Conversation
\* process not running', the second returned 'Approval request not found'
C31_Witness ==
    /\ rrid = <<"r1", "r1">>
    /\ rpc = <<"done", "done">>
    /\ rresult = <<"Conversation process not running", "Approval request not found">>
    /\ pending_approvals["r1"] = NoCid

\* ---------------------------------------------------------------- lock order

\* thread t holds no lock
HoldsNothing(t) == reg_lock # t /\ \A p \in Pids : stdin_lock[p] # t

\* where a thread stands while it holds the running_codex lock: inside the
\* block or function that took it
RegistryHolderInside ==
    /\ \A j \in Cancels : reg_lock = Thread("cancel", j) => cpc[j] = "kill"
    /\ \A k \in Pids : reg_lock = Thread("launch", k) => lpc[k] = "kill"
    /\ \A k \in Pids : reg_lock = Thread("monitor", k) => monpc[k] = "try_wait"
    /\ \A i \in Responds :
         reg_lock = Thread("respond", i)
            => rpc[i] \in {"lock_stdin", "write_payload", "write_newline"}

\* the steps that lock pending_approvals are taken by threads holding no lock
PendingLockedAlone ==
    /\ \A i \in Responds : (rpc[i] = "idle" /\ rpc'[i] # "idle") => HoldsNothing(Thread("respond", i))
    /\ \A j \in Cancels : (cpc[j] = "purge" /\ cpc'[j] # "purge") => HoldsNothing(Thread("cancel", j))
    /\ \A k \in Pids : (lpc[k] = "purge" /\ lpc'[k] # "purge") => HoldsNothing(Thread("launch", k))
    /\ \A k \in Pids : (monpc[k] = "purge" /\ monpc'[k] # "purge") => HoldsNothing(Thread("monitor", k))

\* C32: no thread holds the running_codex lock while it locks
\* pending_approvals; the only nested acquisition is the stdin lock taken by
\* respond_to_approval while it holds the running_codex lock; and no thread
\* waits for a lock whose holder waits for a lock: a thread that holds the
\* running_codex lock finds the stdin lock it wants free.
C32_NoLockOrderDeadlock ==
    /\ []RegistryHolderInside
    /\ [][PendingLockedAlone]_vars
    /\ [](\A p \in Pids : stdin_lock[p] # Free => stdin_lock[p] = reg_lock)
    /\ [](\A i \in Responds : rpc[i] = "lock_stdin" => stdin_lock[rinst[i]] = Free)

\* a respond_to_approval holds the running_codex lock and the stdin lock,
\* between its two writes, while a cancel_prompt that has released the
\* running_codex lock is about to lock pending_approvals
C32_Witness ==
    \E i \in Responds, j \in Cancels :
        /\ rpc[i] = "write_newline"
        /\ reg_lock = Thread("respond", i)
        /\ stdin_lock[rinst[i]] = Thread("respond", i)
        /\ cpc[j] = "purge"

\* ---------------------------------------------------------------- waiting for the registry

\* no command other than respond_to_approval is between its call and its return
OnlyRespondsRunning ==
    /\ \A k \in Pids : lpc[k] \in {"idle", "done"}
    /\ \A j \in Cancels : cpc[j] \in {"idle", "done"}

\* C38: an operation on conversation B is never blocked for ever by the
\* process of another conversation: the monitor of B's instance, at its poll,
\* gets the running_codex lock, also while a respond_to_approval writes to the
\* stdin of another conversation's process that does not read.
C38_OthersNotBlockedForEver ==
    \A k \in Pids :
        [](lcid[k] = "B" /\ monpc[k] = "poll" /\ OnlyRespondsRunning
              => <>(monpc[k] # "poll"))

\* ---------------------------------------------------------------- pty_kill

\* some pty_kill call has removed the session registered under id
KillRemoved(id) ==
    \E q \in PtyKills :
        /\ pk_pc[q] \in {"kill", "done"}
        /\ pk_id[q] = id
        /\ pk_ref[q] # NoChild

\* C39: no pty-exit for a session is emitted after pty_kill has removed the
\* session from pty_terminals, however the monitor's poll (lookup, try_wait,
\* remove, emit) and pty_kill (remove, kill) interleave.
C39_NoExitAfterKillRemoved ==
    [][\A s \in PtyCalls :
          (/\ Len(pty_events'[s]) > Len(pty_events[s])
           /\ pty_events'[s][Len(pty_events'[s])].name = "pty-exit")
              => ~KillRemoved(pty_id[s])]_vars

\* pty_kill call q found its session and has returned
KillReturned(q) == pk_pc[q] = "done" /\ pk_ref[q] # NoChild

\* a pty_write for id called in this step returns "Terminal not found"
WriteFindsNothing(id) ==
    \A w \in PtyWrites :
        (pw_pc[w] = "idle" /\ pw_pc'[w] # "idle" /\ pw_id'[w] = id)
            => (pw_pc'[w] = "done" /\ pw_result'[w] = "Terminal not found")

\* a pty_kill for id called in this step returns "Terminal not found"
KillFindsNothing(id) ==
    \A q \in PtyKills :
        (pk_pc[q] = "idle" /\ pk_pc'[q] # "idle" /\ pk_id'[q] = id)
            => (pk_pc'[q] = "done" /\ pk_result'[q] = "Terminal not found")

\* C40: pty_kill(id) on a registered session removes id from pty_terminals
\* before it attempts the kill: from the removal on pty_list does not return
\* id; the call returns success or "Failed to stop terminal"; and after it has
\* returned, pty_write(id) and a second pty_kill(id) return "Terminal not
\* found".
C40_KilledSessionIsGone ==
    /\ [](\A q \in PtyKills :
            /\ KillRemoved(pk_id[q]) => pk_id[q] \notin pty_list
            /\ KillReturned(q) => pk_result[q] \in {"success", "Failed to stop terminal"})
    /\ [][\A q \in PtyKills :
            KillReturned(q) => (WriteFindsNothing(pk_id[q]) /\ KillFindsNothing(pk_id[q]))]_vars

\* a pty_kill has removed a session and returned; a later pty_kill and a
\* pty_write for the same id have returned "Terminal not found"
C40_Witness ==
    \E q \in PtyKills, q2 \in PtyKills, w \in PtyWrites :
        /\ q < q2
        /\ KillReturned(q)
        /\ pk_result[q] = "success"
        /\ pk_pc[q2] = "done" /\ pk_id[q2] = pk_id[q]
        /\ pk_result[q2] = "Terminal not found"
        /\ pw_pc[w] = "done" /\ pw_id[w] = pk_id[q]
        /\ pw_result[w] = "Terminal not found"
        /\ pk_id[q] \notin pty_list

============================================================================
